---------------------------- MODULE Spec2Model ----------------------------
(***************************************************************************)
(* A model of the Atlas attachment downloader of stacks-core              *)
(* (src/src/net/atlas/download.rs): the priority queue of attachment       *)
(* batches, the batch state machine driven by run(), the request batcher,  *)
(* the reliability reports and the retry back-off.                         *)
(***************************************************************************)
EXTENDS Integers, Sequences, FiniteSets, TLC

(***************************************************************************)
(* Bounds of the model.                                                    *)
(***************************************************************************)
\* The clock runs over 0..MaxTime.
MaxTime == 4

\* Between two reads of the clock at most MaxClockStep units of time pass.
MaxClockStep == 1

\* The storage returns at most MaxFaults errors.
MaxFaults == 1

\* The storage evicts expired entries at most MaxEvictions times.
MaxEvictions == 1

\* The network opens at most MaxEvents connections: the event ids are
\* 0 .. MaxEvents - 1.
MaxEvents == 4
\* Configurations max_attachment_retry_count ranges over 0..MaxRetryConfig.
MaxRetryConfig == 2
\* Configurations max_inflight_attachments ranges over 1..MaxInflightConfig.
MaxInflightConfig == 2
\* The host calls enqueue_new_attachments before the first run() only when
\* the initial batch holds at most MaxEarlyInitial instances.
MaxEarlyInitial == 1

\* Number of enqueue_new_attachments calls made (the admission of the initial
\* batch is one).
MaxEnqueues == 1
\* The host passes the signer up to MaxCommands commands and MaxSignerEvents
\* events, an event of a stacker DB has up to MaxChunks chunks and the
\* coordinator returns up to MaxResults operation results at once.
MaxCommands == 2
MaxSignerEvents == 2
MaxChunks == 1
MaxResults == 1
\* The signer probed with a cache is passed MaxProbeCommands more commands
\* and MaxProbeEvents more events.
MaxProbeCommands == 1
MaxProbeEvents == 1

\* The event receiver: the requests the node posts, the consumers added to
\* the receiver, and the failures of the HTTP server (a recv that errs, a
\* response that cannot be written).
MaxRequests == 2

MaxConsumers == 2

MaxServerFaults == 1
\* The batches probed for resolve_attachment track up to MaxProbeIndexes
\* indexes per contract, under MaxProbeHashes content hashes.
MaxProbeIndexes == 2
MaxProbeHashes == 2
\* The request queues probed hold up to MaxProbeRequests requests.
MaxProbeRequests == 2
\* The reports probed count 0..MaxProbeSent requests, and more (ProbeSents).
MaxProbeSent == 5
\* The random u64 of bump_retry_count is drawn from 0..MaxRand.
MaxRand == 1
\* bump_retry_count is probed on retry counts 0..MaxProbeRetry (and on the
\* counts around 2^32, see ProbeRetryCounts).
MaxProbeRetry == 11
\* The queues probed hold at most MaxProbeQueue batches, of at most
\* MaxProbeMissing missing instances, of retry deadlines 0..MaxProbeDeadline
\* and block heights 1..MaxProbeHeight.
MaxProbeQueue == 3
MaxProbeMissing == 2
MaxProbeDeadline == 2
MaxProbeHeight == 2

(***************************************************************************)
(* Program constants.                                                      *)
(***************************************************************************)
\* net::atlas::MAX_RETRY_DELAY, in seconds.
MAX_RETRY_DELAY == 600
\* AttachmentInstance::ATTACHMENTS_INV_PAGE_SIZE.
ATTACHMENTS_INV_PAGE_SIZE == 8
\* net::atlas::MAX_ATTACHMENT_INV_PAGES_PER_REQUEST.
MAX_ATTACHMENT_INV_PAGES_PER_REQUEST == 8

None == [none |-> TRUE]

Min(a, b) == IF a <= b THEN a ELSE b
Max(a, b) == IF a >= b THEN a ELSE b

\* A set as a sequence, in a fixed order: how the model iterates a HashMap,
\* a HashSet or a drained Vec whose order no claim depends on.
RECURSIVE SetToSeq(_)
SetToSeq(S) ==
    IF S = {} THEN <<>>
    ELSE LET x == CHOOSE y \in S : TRUE IN <<x>> \o SetToSeq(S \ {x})

Range(s) == {s[i] : i \in DOMAIN s}

\* Number of occurrences of x in the sequence s.
Occurrences(s, x) == Cardinality({i \in DOMAIN s : s[i] = x})

(***************************************************************************)
(* std::cmp::Ordering.                                                     *)
(***************************************************************************)
Cmp(a, b) == IF a < b THEN "Less" ELSE IF a > b THEN "Greater" ELSE "Equal"

\* Ordering::then_with
ThenWith(o, next) == IF o = "Equal" THEN next ELSE o

(***************************************************************************)
(* u64 values that a cast to u32 can truncate.  TLC's integers stop at     *)
(* 2^31 - 1, so a u64 v is the record [hi, lo] with v = hi * 2^32 + lo,    *)
(* lo small in absolute value: [hi |-> 1, lo |-> -1] is 2^32 - 1.          *)
(***************************************************************************)
U64(n) == [hi |-> 0, lo |-> n]

U64Inc(x) == [x EXCEPT !.lo = @ + 1]

U64Dec(x) == [x EXCEPT !.lo = @ - 1]

\* x < n for a small n.
U64Lt(x, n) == x.hi = 0 /\ x.lo < n

\* Exponents of 64 and more all saturate 2u64.saturating_pow: the cast of a
\* value just below a multiple of 2^32 is 2^32 + lo, written HugeExponent.
HugeExponent == 64

\* `x as u32`
AsU32(x) == IF x.lo >= 0 THEN x.lo ELSE HugeExponent

\* Every value of 2^29 and more is written SatCap: such values only meet
\* cmp::min(MAX_RETRY_DELAY, _), which they never decide.
SatCap == 536870912

\* 2u64.saturating_pow(e)
saturating_pow2(e) == IF e >= 29 THEN SatCap ELSE 2 ^ e

\* a.saturating_add(b)
saturating_add(a, b) == Min(SatCap, a + b)

(***************************************************************************)
(* u32.  A value below 2^31 is written as itself and a value v from 2^31   *)
(* on as v - 2^32, so that adding one wraps from 2^32 - 1 (written -1)     *)
(* to 0.                                                                   *)
(***************************************************************************)
\* i32::MAX, the greatest value written as itself.
I32Max == 2147483647

\* The greatest n for which n * 1000 is at most u32::MAX.
U32MaxTimes1000 == 4294967

\* a < b on u32.
U32Lt(a, b) == IF (a < 0) = (b < 0) THEN a < b ELSE b < 0

\* a.cmp(&b) on u32.
U32Cmp(a, b) ==
    IF a = b THEN "Equal" ELSE IF U32Lt(a, b) THEN "Less" ELSE "Greater"

\* a + b passes u32::MAX.
U32AddOverflows(a, b) ==
    \/ a < 0 /\ b < 0
    \/ a < 0 /\ b >= 0 /\ a + b >= 0
    \/ a >= 0 /\ b < 0 /\ a + b >= 0

\* a.wrapping_add(b)
U32Add(a, b) ==
    IF a >= 0 /\ b >= 0 /\ a > I32Max - b
    THEN (a - I32Max - 1) + (b - I32Max - 1)
    ELSE IF a < 0 /\ b < 0 /\ a < (-I32Max - 1) - b
    THEN (a + I32Max + 1) + (b + I32Max + 1)
    ELSE a + b

\* a.wrapping_mul(1000), by the 16-bit halves of a.
U32Mul1000(a) ==
    LET high == ((a \div 65536) * 1000) % 65536
        low == (a % 65536) * 1000
    IN U32Add((IF high >= 32768 THEN high - 65536 ELSE high) * 65536, low)

\* a / b on u32, for b # 0.
U32Div(a, b) ==
    IF b < 0 THEN (IF U32Lt(a, b) THEN 0 ELSE 1)
    ELSE IF a >= 0 THEN a \div b
    ELSE IF b = 1 THEN a
    ELSE LET half == (a \div 2) + 1073741824 + 1073741824
             bit == a % 2
             q == half \div b
             r == half % b
         IN 2 * q + (IF r >= b - r - bit THEN 1 ELSE 0)

(***************************************************************************)
(* ReliabilityReport                                                       *)
(***************************************************************************)
ReliabilityReport_new(sent, success) ==
    [total_requests_sent |-> sent, total_requests_success |-> success]

ReliabilityReport_empty == ReliabilityReport_new(0, 0)

\* bump_successful_requests counting the success only.
bump_successful_requests_success_only(r) ==
    [r EXCEPT !.total_requests_success = U32Add(@, 1)]

bump_successful_requests(r) ==
    [total_requests_sent |-> U32Add(r.total_requests_sent, 1),
     total_requests_success |-> U32Add(r.total_requests_success, 1)]

bump_failed_requests(r) ==
    [r EXCEPT !.total_requests_sent = U32Add(@, 1)]

\* The first of total_requests_success * 1000 and n * 1000 divides by zero
\* when n * 1000 wraps to 0; score() panics.
score_panics(r) ==
    r.total_requests_sent # 0 /\ U32Mul1000(r.total_requests_sent) = 0

\* score() adds or multiplies past u32::MAX: it panics in a build with
\* overflow checks, and goes on with the wrapped values in one without.
score_overflows(r) ==
    \/ U32Lt(U32MaxTimes1000, r.total_requests_sent)
    \/ U32Lt(U32MaxTimes1000, r.total_requests_success)
    \/ /\ ~score_panics(r)
       /\ r.total_requests_sent # 0
       /\ U32AddOverflows(
              U32Div(U32Mul1000(r.total_requests_success),
                     U32Mul1000(r.total_requests_sent)),
              r.total_requests_sent)

\* score with the hit rate alone.
score_rate_only(r) ==
    IF r.total_requests_sent = 0 THEN 0
    ELSE U32Div(U32Mul1000(r.total_requests_success),
                U32Mul1000(r.total_requests_sent))

\* score(), as a build without overflow checks computes it.
score(r) ==
    IF r.total_requests_sent = 0 THEN 0
    ELSE U32Add(U32Div(U32Mul1000(r.total_requests_success),
                       U32Mul1000(r.total_requests_sent)),
                r.total_requests_sent)

ReliabilityReport_cmp(a, b) ==
    ThenWith(U32Cmp(score(a), score(b)),
             U32Cmp(a.total_requests_success, b.total_requests_success))

(***************************************************************************)
(* AttachmentsBatch.  attachments_instances maps a contract id to a map    *)
(* from attachment index to content hash.  bid is a history field: the     *)
(* number of the batch in creation order, which the code does not have.    *)
(***************************************************************************)
EmptyHash == 0

AttachmentsBatch_new(bid) ==
    [block_height |-> 0,
     index_block_hash |-> 0,
     attachments_instances |-> << >>,
     retry_count |-> U64(0),
     retry_deadline |-> 0,
     bid |-> bid]

\* The (contract id, attachment index, content hash) triples of a batch.
Missing(batch) ==
    UNION {{<<c, i, batch.attachments_instances[c][i]>> :
                i \in DOMAIN batch.attachments_instances[c]} :
           c \in DOMAIN batch.attachments_instances}

attachments_instances_count(batch) ==
    LET m == batch.attachments_instances
        RECURSIVE Sum(_)
        Sum(D) == IF D = {} THEN 0
                  ELSE LET c == CHOOSE x \in D : TRUE
                       IN Cardinality(DOMAIN m[c]) + Sum(D \ {c})
    IN Sum(DOMAIN m)

has_fully_succeed(batch) == attachments_instances_count(batch) = 0

\* track_attachment leaving the block of the batch as it was created.
track_attachment_keep_block(batch, attachment) ==
    LET m == batch.attachments_instances
        c == attachment.contract_id
        inner == IF c \in DOMAIN m THEN m[c] ELSE << >>
        inner2 == [i \in DOMAIN inner \cup {attachment.attachment_index} |->
                      IF i = attachment.attachment_index
                      THEN attachment.content_hash ELSE inner[i]]
    IN [batch EXCEPT !.attachments_instances =
            [d \in DOMAIN m \cup {c} |-> IF d = c THEN inner2 ELSE m[d]]]

\* track_attachment keeping only the first instance of a batch.
track_attachment_first_only(batch, attachment) ==
    IF DOMAIN batch.attachments_instances = {}
    THEN [batch EXCEPT !.block_height = attachment.block_height,
                       !.index_block_hash = attachment.index_block_hash,
                       !.attachments_instances =
                           [c \in {attachment.contract_id} |->
                               [i \in {attachment.attachment_index} |->
                                   attachment.content_hash]]]
    ELSE batch

track_attachment(batch, attachment) ==
    LET m == batch.attachments_instances
        first == DOMAIN m = {}
        b1 == IF first
              THEN [batch EXCEPT !.block_height = attachment.block_height,
                                 !.index_block_hash = attachment.index_block_hash]
              ELSE batch
        unrelated == /\ ~first
                     /\ \/ batch.block_height # attachment.block_height
                        \/ batch.index_block_hash # attachment.index_block_hash
        c == attachment.contract_id
        inner == IF c \in DOMAIN m THEN m[c] ELSE << >>
        inner2 == [i \in DOMAIN inner \cup {attachment.attachment_index} |->
                      IF i = attachment.attachment_index
                      THEN attachment.content_hash ELSE inner[i]]
        m2 == [d \in DOMAIN m \cup {c} |-> IF d = c THEN inner2 ELSE m[d]]
    IN IF unrelated THEN batch
       ELSE [b1 EXCEPT !.attachments_instances = m2]

\* resolve_attachment removing, in each contract, only the least index of
\* the content hash.
resolve_attachment_one_key(batch, content_hash) ==
    LET m == batch.attachments_instances
        keys(c) == {k \in DOMAIN m[c] : m[c][k] = content_hash}
        first(c) == {k \in keys(c) : \A j \in keys(c) : k <= j}
    IN [batch EXCEPT !.attachments_instances =
          [c \in DOMAIN m |-> [i \in DOMAIN m[c] \ first(c) |-> m[c][i]]]]

resolve_attachment(batch, content_hash) ==
    LET m == batch.attachments_instances
    IN [batch EXCEPT !.attachments_instances =
          [c \in DOMAIN m |->
              [i \in {k \in DOMAIN m[c] : m[c][k] # content_hash} |-> m[c][i]]]]

\* retry_delay with the power of two taken one too high.
retry_delay_next_power(retry_count, r) ==
    Min(MAX_RETRY_DELAY,
        saturating_add(
            saturating_pow2(AsU32(retry_count) + 1),
            r % saturating_pow2(AsU32(U64Dec(retry_count)))))

\* The delay of bump_retry_count, from the incremented retry count and the
\* random u64 r.
retry_delay(retry_count, r) ==
    Min(MAX_RETRY_DELAY,
        saturating_add(
            saturating_pow2(AsU32(retry_count)),
            r % saturating_pow2(AsU32(U64Dec(retry_count)))))

\* bump_retry_count with the delay taken off the current time.
bump_retry_count_before_now(batch, time, r) ==
    LET rc == U64Inc(batch.retry_count)
    IN [batch EXCEPT !.retry_count = rc,
                     !.retry_deadline = time - retry_delay(rc, r)]

bump_retry_count(batch, time, r) ==
    LET rc == U64Inc(batch.retry_count)
    IN [batch EXCEPT !.retry_count = rc,
                     !.retry_deadline = time + retry_delay(rc, r)]

\* AttachmentsBatch_cmp comparing the numbers of missing instances before
\* the retry deadlines.
AttachmentsBatch_cmp_count_first(self, other) ==
    ThenWith(
        ThenWith(Cmp(attachments_instances_count(self),
                     attachments_instances_count(other)),
                 Cmp(other.retry_deadline, self.retry_deadline)),
        Cmp(other.block_height, self.block_height))

\* AttachmentsBatch_cmp comparing the block heights before the retry
\* deadlines.
AttachmentsBatch_cmp_height_first(self, other) ==
    ThenWith(
        ThenWith(Cmp(other.block_height, self.block_height),
                 Cmp(other.retry_deadline, self.retry_deadline)),
        Cmp(attachments_instances_count(self),
            attachments_instances_count(other)))

AttachmentsBatch_cmp(self, other) ==
    ThenWith(
        ThenWith(Cmp(other.retry_deadline, self.retry_deadline),
                 Cmp(attachments_instances_count(self),
                     attachments_instances_count(other))),
        Cmp(other.block_height, self.block_height))

(***************************************************************************)
(* std::collections::BinaryHeap, as the set of its elements: peek and pop  *)
(* take a greatest element, any of them when several compare Equal.        *)
(***************************************************************************)
BatchHeads(queue) ==
    {m \in queue : \A x \in queue : AttachmentsBatch_cmp(x, m) # "Greater"}

(***************************************************************************)
(* Attachments and the storage collaborator (AtlasDB).  An attachment is   *)
(* its content; hash() is injective on the contents of the model.          *)
(***************************************************************************)
Contents == 11 .. 13

\* Attachment::empty(): the attachment with no content.
Attachment_empty == 10

\* Attachment::hash()
HashOf(c) == IF c = Attachment_empty THEN 9 ELSE c - 10

\* The content with hash h.
ContentOf(h) == CHOOSE c \in Contents : HashOf(c) = h

AtlasDB_empty == [attachments |-> {}, inboxed |-> {}, instances |-> {}]

\* An Option<Attachment> is the set of at most one attachment.
find_attachment(db, h) == {c \in db.attachments : HashOf(c) = h}

find_uninstantiated_attachment(db, h) == {c \in db.inboxed : HashOf(c) = h}

\* Option::unwrap
Unwrap(option) == CHOOSE x \in option : TRUE

\* The row of the attachment becomes instantiated and the instances of its
\* hash become available.
insert_instantiated_attachment(db, a) ==
    [attachments |-> db.attachments \cup {a},
     inboxed |-> db.inboxed \ {a},
     instances |-> {IF HashOf(a) = x.instance.content_hash
                    THEN [x EXCEPT !.is_available = TRUE] ELSE x :
                        x \in db.instances}]

insert_uninstantiated_attachment_instance(db, instance, is_available) ==
    [db EXCEPT !.instances =
        {x \in @ : x.instance # instance}
            \cup {[instance |-> instance, is_available |-> is_available]}]

find_all_attachment_instances(db, h) ==
    {x.instance : x \in {y \in db.instances : y.instance.content_hash = h}}

\* Eviction removes what has expired: all of it (expire = TRUE) or nothing.
evict_expired_uninstantiated_attachments(db, expire) ==
    IF expire THEN [db EXCEPT !.inboxed = {}] ELSE db

evict_expired_unresolved_attachment_instances(db, expire) ==
    IF expire THEN [db EXCEPT !.instances = {x \in @ : x.is_available}] ELSE db

(***************************************************************************)
(* The attachment instances of the model.                                  *)
(***************************************************************************)
AttachmentInstance(c, i, height, block, h) ==
    [contract_id |-> c, attachment_index |-> i, block_height |-> height,
     index_block_hash |-> block, content_hash |-> h]

\* Three instances of distinct hashes in block 1.
I1 == AttachmentInstance("c1", 0, 1, 1, 1)
I2 == AttachmentInstance("c1", 1, 1, 1, 2)
I3 == AttachmentInstance("c1", 2, 1, 1, 3)
\* A second instance of hash 1 in block 1, on the next inventory page.
I4 == AttachmentInstance("c1", 8, 1, 1, 1)
\* An instance in block 2, higher.
I5 == AttachmentInstance("c1", 0, 2, 2, 2)
\* An instance with the empty hash.
I6 == AttachmentInstance("c1", 3, 1, 1, EmptyHash)

\* The sets enqueue_new_attachments is called with by the host.
NewAttachments == {{I3, I4, I6}}

\* The data URLs of the peers.
Urls == {"u1", "u2"}

\* The orders in which a HashSet of the instances S can be drained.
Perms(S) ==
    {s \in [1 .. Cardinality(S) -> S] : \A x \in S : \E i \in DOMAIN s : s[i] = x}

(***************************************************************************)
(* enqueue_new_attachments, on the instances in the order `order`.         *)
(* fail = <<k, w>>: the w-th storage write made for the k-th instance      *)
(* returns an error (<<0, 0>>: no write fails).  The result holds the      *)
(* return value (ret, resolved) and the new queue and storage.             *)
(***************************************************************************)
EnqueueFold(order, db0, initial_batch_flag, fail, bid0) ==
    LET RECURSIVE Go(_, _)
        Go(k, acc) ==
            IF k > Len(order) \/ acc.failed THEN acc
            ELSE
            LET inst == order[k]
                h == inst.content_hash
                fails(w) == fail = <<k, w>>
                entry == find_attachment(acc.db, h)
                inboxed == find_uninstantiated_attachment(acc.db, h)
                paired(db, a) ==
                    [acc EXCEPT
                        !.db = insert_uninstantiated_attachment_instance(db, inst, TRUE),
                        !.resolved = Append(@, <<inst, a>>)]
                block == inst.index_block_hash
                known == block \in DOMAIN acc.batches
                batch == IF known THEN acc.batches[block]
                         ELSE AttachmentsBatch_new(acc.bid)
                tracked ==
                    [acc EXCEPT
                        !.batches = [b \in DOMAIN acc.batches \cup {block} |->
                                        IF b = block THEN track_attachment(batch, inst)
                                        ELSE acc.batches[b]],
                        !.bid = IF known THEN @ ELSE @ + 1]
                failed == [acc EXCEPT !.failed = TRUE]
            IN Go(k + 1,
                  IF h = EmptyHash
                  THEN IF fails(1) THEN failed ELSE paired(acc.db, Attachment_empty)
                  ELSE IF entry # {}
                  THEN IF fails(1) THEN failed ELSE paired(acc.db, Unwrap(entry))
                  ELSE IF inboxed # {}
                  THEN IF fails(1) THEN failed
                       ELSE IF fails(2)
                       THEN [failed EXCEPT
                               !.db = insert_instantiated_attachment(
                                         acc.db, Unwrap(inboxed))]
                       ELSE paired(insert_instantiated_attachment(
                                       acc.db, Unwrap(inboxed)),
                                   Unwrap(inboxed))
                  ELSE IF initial_batch_flag THEN tracked
                  ELSE IF fails(1) THEN [tracked EXCEPT !.failed = TRUE]
                  ELSE [tracked EXCEPT
                          !.db = insert_uninstantiated_attachment_instance(
                                    acc.db, inst, FALSE)])
    IN Go(1, [db |-> db0, resolved |-> <<>>, batches |-> << >>,
              failed |-> FALSE, bid |-> bid0])

\* enqueue_new_attachments persisting the instances it tracks as available.
enqueue_new_attachments_available(queue, db0, order, initial_batch_flag, fail, bid0) ==
    LET acc == EnqueueFold(order, db0, initial_batch_flag, fail, bid0)
        db == [acc.db EXCEPT !.instances =
                  {IF x.instance \in Range(order)
                   THEN [x EXCEPT !.is_available = TRUE] ELSE x : x \in @}]
    IN IF acc.failed
       THEN [ret |-> "err", resolved |-> <<>>, queue |-> queue, db |-> db,
             bid |-> acc.bid]
       ELSE [ret |-> "ok", resolved |-> acc.resolved,
             queue |-> queue \cup {acc.batches[b] : b \in DOMAIN acc.batches},
             db |-> db, bid |-> acc.bid]

enqueue_new_attachments(queue, db0, order, initial_batch_flag, fail, bid0) ==
    LET acc == EnqueueFold(order, db0, initial_batch_flag, fail, bid0)
    IN IF acc.failed
       THEN [ret |-> "err", resolved |-> <<>>, queue |-> queue, db |-> acc.db,
             bid |-> acc.bid]
       ELSE [ret |-> "ok", resolved |-> acc.resolved,
             queue |-> queue \cup {acc.batches[b] : b \in DOMAIN acc.batches},
             db |-> acc.db, bid |-> acc.bid]

(***************************************************************************)
(* The priority queue of the downloader.                                   *)
(***************************************************************************)
\* has_ready_batches taking a batch whose deadline is the current time for
\* ready.
has_ready_batches_at_deadline(queue, time) ==
    \E batch \in queue : batch.retry_deadline <= time

has_ready_batches(queue, time) ==
    \E batch \in queue : batch.retry_deadline < time

\* The possible results of pop_next_ready_batch at `time`: the batch
\* returned (or None) and the queue left.
pop_next_ready_batch(queue, time) ==
    IF queue = {} THEN {[batch |-> None, queue |-> queue]}
    ELSE {IF next.retry_deadline < time
          THEN [batch |-> next, queue |-> queue \ {next}]
          ELSE [batch |-> None, queue |-> queue] : next \in BatchHeads(queue)}

(***************************************************************************)
(* Requests.  An AttachmentsInventoryRequest asks the peer `url` for the   *)
(* inventory pages `pages` of a contract; an AttachmentRequest asks for    *)
(* the attachment of a content hash and knows the peers that list it.      *)
(***************************************************************************)
\* The sources max_by_key(score) can return: those of greatest score.  Which
\* of them it returns depends on the order the HashMap iterates in.
most_reliable_sources(sources) ==
    {u \in DOMAIN sources :
        \A v \in DOMAIN sources : ~U32Lt(score(sources[u]), score(sources[v]))}

\* An AttachmentRequest.  most_reliable is a history field: the source the
\* iteration order of `sources` makes get_most_reliable_source return.
AttachmentRequest(content_hash, sources, most_reliable) ==
    [content_hash |-> content_hash, sources |-> sources,
     most_reliable |-> most_reliable]

\* AttachmentRequest::get_most_reliable_source
get_most_reliable_source(request) == request.most_reliable

\* Requestable::get_url
get_url(request) ==
    IF "url" \in DOMAIN request THEN request.url
    ELSE get_most_reliable_source(request)

\* AttachmentsInventoryRequest::key
key(request) == <<request.contract_id, request.pages, request.index_block_hash>>

AttachmentsInventoryRequest_cmp(self, other) ==
    ReliabilityReport_cmp(self.reliability_report, other.reliability_report)

\* AttachmentRequest::cmp with the numbers of sources compared the other
\* way round.
AttachmentRequest_cmp_more_first(self, other) ==
    ThenWith(
        Cmp(Cardinality(DOMAIN self.sources), Cardinality(DOMAIN other.sources)),
        ReliabilityReport_cmp(self.sources[get_most_reliable_source(self)],
                              other.sources[get_most_reliable_source(other)]))

AttachmentRequest_cmp(self, other) ==
    ThenWith(
        Cmp(Cardinality(DOMAIN other.sources), Cardinality(DOMAIN self.sources)),
        ReliabilityReport_cmp(self.sources[get_most_reliable_source(self)],
                              other.sources[get_most_reliable_source(other)]))

Requestable_cmp(self, other) ==
    IF "url" \in DOMAIN self THEN AttachmentsInventoryRequest_cmp(self, other)
    ELSE AttachmentRequest_cmp(self, other)

\* The requests BinaryHeap::pop can return.
RequestHeads(queue) ==
    {m \in queue : \A x \in queue : Requestable_cmp(x, m) # "Greater"}

\* The set S in increasing order.
RECURSIVE Sorted(_)
Sorted(S) ==
    IF S = {} THEN <<>>
    ELSE LET x == CHOOSE y \in S : \A z \in S : y <= z
         IN <<x>> \o Sorted(S \ {x})

\* slice::chunks
RECURSIVE Chunks(_, _)
Chunks(s, n) ==
    IF Len(s) = 0 THEN <<>>
    ELSE IF Len(s) <= n THEN <<s>>
    ELSE <<SubSeq(s, 1, n)>> \o Chunks(SubSeq(s, n + 1, Len(s)), n)

get_missing_pages_for_contract_id(batch, contract_id) ==
    IF contract_id \in DOMAIN batch.attachments_instances
    THEN {i \div ATTACHMENTS_INV_PAGE_SIZE :
            i \in DOMAIN batch.attachments_instances[contract_id]}
    ELSE {}

get_paginated_missing_pages_for_contract_id(batch, contract_id) ==
    Chunks(Sorted(get_missing_pages_for_contract_id(batch, contract_id)),
           MAX_ATTACHMENT_INV_PAGES_PER_REQUEST)

(***************************************************************************)
(* AttachmentsBatchStateContext                                            *)
(***************************************************************************)
AttachmentsBatchStateContext_new(attachments_batch, peers) ==
    [attachments_batch |-> attachments_batch,
     peers |-> peers,
     dns_lookups |-> << >>,
     inventories |-> << >>,
     attachments |-> {},
     events_to_deregister |-> <<>>]

get_peers_urls(context) == DOMAIN context.peers

get_prioritized_attachments_inventory_requests(context) ==
    LET batch == context.attachments_batch
    IN UNION {
         {[url |-> peer_url,
           reliability_report |-> context.peers[peer_url],
           contract_id |-> contract_id,
           pages |-> pages,
           block_height |-> batch.block_height,
           index_block_hash |-> batch.index_block_hash] :
              peer_url \in DOMAIN context.peers,
              pages \in Range(get_paginated_missing_pages_for_contract_id(
                                 batch, contract_id))} :
         contract_id \in DOMAIN batch.attachments_instances}

\* Sources with every peer that answered under the key k, whatever its bits.
Sources_any_bit(context, k, attachment_index) ==
    [peer_url \in DOMAIN context.inventories[k] |-> context.peers[peer_url]]

\* The peers whose inventory response under the key k has bit 1 for the
\* attachment index, with their reports.
Sources(context, k, attachment_index) ==
    LET page_index == attachment_index \div ATTACHMENTS_INV_PAGE_SIZE
        position_in_page == attachment_index % ATTACHMENTS_INV_PAGE_SIZE
        peers_responses == context.inventories[k]
        has == {peer_url \in DOMAIN peers_responses :
                  /\ page_index \in DOMAIN peers_responses[peer_url]
                  /\ position_in_page \in peers_responses[peer_url][page_index]}
    IN [peer_url \in has |-> context.peers[peer_url]]

\* The queues get_prioritized_attachments_requests can build: each content
\* hash is requested once, with the sources of the first (inventory,
\* attachment index) pair of that hash met that has a source, and the maps
\* are iterated in any order.
get_prioritized_attachments_requests(context) ==
    LET m == context.attachments_batch.attachments_instances
        cands(h) ==
            {<<k, i>> \in UNION {{<<k1, i1>> : i1 \in DOMAIN m[k1[1]]} :
                                   k1 \in {k2 \in DOMAIN context.inventories :
                                              k2[1] \in DOMAIN m}} :
                /\ m[k[1]][i] = h
                /\ (i \div ATTACHMENTS_INV_PAGE_SIZE) \in Range(k[2])
                /\ DOMAIN Sources(context, k, i) # {}}
        hashes == {t[3] : t \in {u \in Missing(context.attachments_batch) :
                                    cands(u[3]) # {}}}
        firsts == {f \in [hashes -> UNION {cands(h) : h \in hashes}] :
                     \A h \in hashes : f[h] \in cands(h)}
        sources(f, h) == Sources(context, f[h][1], f[h][2])
        picks(f) == {g \in [hashes -> DOMAIN context.peers] :
                       \A h \in hashes : g[h] \in most_reliable_sources(sources(f, h))}
    IN UNION {{{AttachmentRequest(h, sources(f, h), g[h]) : h \in hashes} :
                 g \in picks(f)} : f \in firsts}

\* One (request, response) pair of extend_with_inventories.
ExtendInventory(context, request, response) ==
    LET url == get_url(request)
        k == key(request)
        inv == context.inventories
        old == IF k \in DOMAIN inv THEN inv[k] ELSE << >>
    IN IF response.type = "GetAttachmentsInv"
       THEN [context EXCEPT
               !.inventories =
                   [x \in DOMAIN inv \cup {k} |->
                       IF x = k
                       THEN [u \in DOMAIN old \cup {url} |->
                               IF u = url THEN response.pages ELSE old[u]]
                       ELSE inv[x]],
               !.peers[url] = bump_successful_requests(@)]
       ELSE [context EXCEPT !.peers[url] = bump_failed_requests(@)]

\* One (request, response) pair of extend_with_attachments.
ExtendAttachment(context, request, response) ==
    LET url == get_url(request)
    IN IF response.type = "GetAttachment"
       THEN [context EXCEPT
               !.attachments = @ \cup {response.attachment},
               !.peers[url] = bump_successful_requests(@)]
       ELSE [context EXCEPT !.peers[url] = bump_failed_requests(@)]

\* The event ids of results.faulty_peers.
FaultyEvents(results) == SetToSeq(DOMAIN results.faulty_peers)

extend_with_inventories(context, results) ==
    LET reqs == SetToSeq(DOMAIN results.succeeded)
        RECURSIVE Go(_, _)
        Go(k, ctx) ==
            IF k > Len(reqs) THEN ctx
            ELSE Go(k + 1, ExtendInventory(ctx, reqs[k], results.succeeded[reqs[k]]))
    IN [Go(1, context) EXCEPT
          !.events_to_deregister = @ \o FaultyEvents(results)]

extend_with_attachments(context, results) ==
    LET reqs == SetToSeq(DOMAIN results.succeeded)
        RECURSIVE Go(_, _)
        Go(k, ctx) ==
            IF k > Len(reqs) THEN ctx
            ELSE Go(k + 1, ExtendAttachment(ctx, reqs[k], results.succeeded[reqs[k]]))
    IN [Go(1, context) EXCEPT
          !.events_to_deregister = @ \o FaultyEvents(results)]

(***************************************************************************)
(* BatchedRequestsState<T>, the request batcher.  The network collaborator *)
(* is the environment: begin_request opens a connection, under a fresh     *)
(* event id, only to a peer whose DNS lookup gave addresses, and may fail  *)
(* to; a poll finds the connection still connecting, failed, waiting for   *)
(* the response, or with a response.                                       *)
(***************************************************************************)
BatchedRequestsResult_new ==
    [remaining |-> << >>, succeeded |-> << >>, faulty_peers |-> << >>]

BeginRequests(queue, results) ==
    [state |-> "BeginRequests", queue |-> queue, results |-> results]

PollRequests(queue, results) ==
    [state |-> "PollRequests", queue |-> queue, results |-> results]

RequestsDone(results) ==
    [state |-> "Done", queue |-> {}, results |-> results]

\* f with x mapped to v.
Insert(f, x, v) == [y \in DOMAIN f \cup {x} |-> IF y = x THEN v ELSE f[y]]

\* The loop of BeginRequests without the limit of n iterations.
\* BeginLoop with max_inflight_attachments taken for 0: no request is
\* popped.
BeginLoop_none(queue, results, event_id, dns_lookups, n) ==
    {[queue |-> queue, results |-> results, event_id |-> event_id]}

RECURSIVE BeginLoop_no_limit(_, _, _, _, _)
BeginLoop_no_limit(queue, results, event_id, dns_lookups, n) ==
    IF queue = {} THEN {[queue |-> queue, results |-> results,
                         event_id |-> event_id]}
    ELSE UNION {
        LET rest == queue \ {requestable}
            url == get_url(requestable)
            resolved == /\ url \in DOMAIN dns_lookups
                        /\ dns_lookups[url] = "Some"
                        /\ event_id < MaxEvents
            begun == [results EXCEPT
                        !.remaining = Insert(@, event_id, requestable)]
        IN IF resolved
           THEN BeginLoop_no_limit(rest, begun, event_id + 1, dns_lookups, n)
           ELSE BeginLoop_no_limit(rest, results, event_id, dns_lookups, n) :
        requestable \in RequestHeads(queue)}

\* What the loop of BeginRequests can leave after n more iterations: the
\* queue, the results and the next event id of the network.
RECURSIVE BeginLoop(_, _, _, _, _)
BeginLoop(queue, results, event_id, dns_lookups, n) ==
    IF n = 0 \/ queue = {} THEN {[queue |-> queue, results |-> results,
                                   event_id |-> event_id]}
    ELSE UNION {
        LET rest == queue \ {requestable}
            url == get_url(requestable)
            resolved == /\ url \in DOMAIN dns_lookups
                        /\ dns_lookups[url] = "Some"
                        /\ event_id < MaxEvents
            begun == [results EXCEPT
                        !.remaining = Insert(@, event_id, requestable)]
        IN IF resolved
           THEN BeginLoop(rest, begun, event_id + 1, dns_lookups, n - 1)
           ELSE BeginLoop(rest, results, event_id, dns_lookups, n - 1) :
        requestable \in RequestHeads(queue)}

\* The responses a peer can give to a request.
Responses(request) ==
    {[type |-> "NotFound"], [type |-> "Other"]}
    \cup (IF "url" \in DOMAIN request
          THEN {[type |-> "GetAttachmentsInv",
                 pages |-> [p \in Range(request.pages) |-> bits]] :
                    bits \in {{0}, {0, 1, 2}}}
          ELSE {[type |-> "GetAttachment", attachment |-> c] :
                    c \in {ContentOf(request.content_hash)}
                          \cup (IF request.content_hash = 1
                                THEN {ContentOf(2)} ELSE {})})

\* What a poll of the connection of a request can find.
Polls(request) ==
    {[type |-> "connecting"], [type |-> "failed"], [type |-> "waiting"]}
    \cup Responses(request)

\* The PollRequests step, `found` giving what the poll of each event id finds.
\* PollStep with a NotFound response taken for an answer.
PollStep_not_found_answers(queue, results, found) ==
    LET remaining == results.remaining
        pending == {e \in DOMAIN remaining :
                      found[e].type \in {"connecting", "waiting"}}
        faulty == {e \in DOMAIN remaining : found[e].type = "failed"}
        answered == DOMAIN remaining \ (pending \cup faulty)
        state == [remaining |-> [e \in pending |-> remaining[e]],
                  succeeded |->
                      [r \in DOMAIN results.succeeded
                                \cup {remaining[e] : e \in answered} |->
                          IF \E e \in answered : remaining[e] = r
                          THEN found[CHOOSE e \in answered : remaining[e] = r]
                          ELSE results.succeeded[r]],
                  faulty_peers |->
                      [e \in DOMAIN results.faulty_peers \cup faulty |->
                          IF e \in faulty THEN get_url(remaining[e])
                          ELSE results.faulty_peers[e]]]
    IN IF pending # {} THEN PollRequests(queue, state)
       ELSE IF queue = {} THEN RequestsDone(state)
       ELSE BeginRequests(queue, state)

PollStep(queue, results, found) ==
    LET remaining == results.remaining
        pending == {e \in DOMAIN remaining :
                      found[e].type \in {"connecting", "waiting"}}
        faulty == {e \in DOMAIN remaining :
                     found[e].type \in {"failed", "NotFound"}}
        answered == DOMAIN remaining \ (pending \cup faulty)
        state == [remaining |-> [e \in pending |-> remaining[e]],
                  succeeded |->
                      [r \in DOMAIN results.succeeded
                                \cup {remaining[e] : e \in answered} |->
                          IF \E e \in answered : remaining[e] = r
                          THEN found[CHOOSE e \in answered : remaining[e] = r]
                          ELSE results.succeeded[r]],
                  faulty_peers |->
                      [e \in DOMAIN results.faulty_peers \cup faulty |->
                          IF e \in faulty THEN get_url(remaining[e])
                          ELSE results.faulty_peers[e]]]
    IN IF pending # {} THEN PollRequests(queue, state)
       ELSE IF queue = {} THEN RequestsDone(state)
       ELSE BeginRequests(queue, state)

(***************************************************************************)
(* BatchedDNSLookupsState.  The environment gives what each URL parses to  *)
(* (an IP address, a domain whose lookup is queued, or neither) and what   *)
(* the poll of each queued lookup finds.                                   *)
(***************************************************************************)
DNSInitialized(urls) == [state |-> "Initialized", urls |-> urls]

DNSResolving(parsed_urls, dns_lookups) ==
    [state |-> "Resolving", parsed_urls |-> parsed_urls,
     dns_lookups |-> dns_lookups]

DNSDone(dns_lookups) == [state |-> "Done", dns_lookups |-> dns_lookups]

UrlKinds == {"ip", "domain"}

LookupPolls == {"resolved", "failed", "inflight"}

\* The Initialized step.
DNSInitStep(urls, kind) ==
    DNSResolving({u \in urls : kind[u] = "domain"},
                 [u \in {v \in urls : kind[v] # "unsupported"} |->
                     IF kind[u] = "ip" THEN "Some" ELSE "None"])

\* The Resolving step that does not wait for the lookups in flight.
DNSResolveStep_no_wait(sub, recv_ok, found) ==
    LET lookups == [u \in DOMAIN sub.dns_lookups |->
                      IF u \in sub.parsed_urls /\ found[u] = "resolved"
                      THEN "Some" ELSE sub.dns_lookups[u]]
    IN IF ~recv_ok THEN sub ELSE DNSDone(lookups)

\* The Resolving step.
DNSResolveStep(sub, recv_ok, found) ==
    LET lookups == [u \in DOMAIN sub.dns_lookups |->
                      IF u \in sub.parsed_urls /\ found[u] = "resolved"
                      THEN "Some" ELSE sub.dns_lookups[u]]
        inflight == {u \in sub.parsed_urls : found[u] = "inflight"}
    IN IF ~recv_ok THEN sub
       ELSE IF inflight # {} THEN DNSResolving(sub.parsed_urls, lookups)
       ELSE DNSDone(lookups)

(***************************************************************************)
(* The state: the clock, the configuration (ConnectionOptions), the        *)
(* fields of AttachmentsDownloader, the storage and the network's next     *)
(* event id.  History variables: next_bid numbers the batches, enqueues    *)
(* counts the host's enqueue_new_attachments calls, processed counts per   *)
(* batch the state machines started for it, last_call records the last     *)
(* call of the host and what it returned.                                  *)
(***************************************************************************)
VARIABLES now, config, priority_queue, initial_batch, ongoing_batch,
          reliability_reports, atlasdb, sync_peers, next_event_id,
          next_bid, enqueues, faults, evictions, processed, last_call,
          signer, receiver

vars == <<now, config, priority_queue, initial_batch, ongoing_batch,
          reliability_reports, atlasdb, sync_peers, next_event_id,
          next_bid, enqueues, faults, evictions, processed, last_call,
          signer, receiver>>

NoCall == [call |-> "none"]

\* The storage the node starts with: the instances of the initial batch are
\* stored, unresolved.  EmptyStore holds no attachment; StockedStore holds
\* the attachment of hash 2 and, not yet validated, the attachment of hash 1.
InitialStore(batch, att, inb) ==
    [attachments |-> att, inboxed |-> inb,
     instances |-> {[instance |-> i, is_available |-> FALSE] : i \in batch}]

EmptyStore(batch) == InitialStore(batch, {}, {})

StockedStore(batch) == InitialStore(batch, {ContentOf(2)}, {ContentOf(1)})

Configs(retries, inflights) ==
    [max_attachment_retry_count : retries, max_inflight_attachments : inflights]

\* What the node starts with: the initial batch of the downloader, the
\* storage, the data URLs of the outbound sync peers of the network and the
\* configurations of the node.
Scenarios ==
    {[initial_batch |-> {}, atlasdb |-> StockedStore({}),
      sync_peers |-> {"u1"},
      configs |-> Configs(0 .. MaxRetryConfig, 1 .. MaxInflightConfig)],
     [initial_batch |-> {I1, I2, I3}, atlasdb |-> EmptyStore({I1, I2, I3}),
      sync_peers |-> {"u1"},
      configs |-> Configs(0 .. MaxRetryConfig, 1 .. MaxInflightConfig)],
     [initial_batch |-> {I1, I2, I3}, atlasdb |-> StockedStore({I1, I2, I3}),
      sync_peers |-> {"u1"},
      configs |-> Configs(0 .. MaxRetryConfig, 1 .. MaxInflightConfig)],
     [initial_batch |-> {I1, I2}, atlasdb |-> EmptyStore({I1, I2}),
      sync_peers |-> {"u1", "u2"},
      configs |-> Configs({1}, 1 .. MaxInflightConfig)],
     [initial_batch |-> {I1, I5}, atlasdb |-> EmptyStore({I1, I5}),
      sync_peers |-> {"u1"},
      configs |-> Configs({MaxRetryConfig}, {1})],
     [initial_batch |-> {I5}, atlasdb |-> EmptyStore({I5}),
      sync_peers |-> {"u1"},
      configs |-> Configs({1}, {1})]}

\* AttachmentsDownloader::new
Init ==
    /\ now = 0
    /\ \E scenario \in Scenarios :
          /\ config \in scenario.configs
          /\ initial_batch = scenario.initial_batch
          /\ atlasdb = scenario.atlasdb
          /\ sync_peers = scenario.sync_peers
    /\ priority_queue = {}
    /\ ongoing_batch = None
    /\ reliability_reports = << >>
    /\ next_event_id = 0
    /\ next_bid = 1
    /\ enqueues = 0
    /\ faults = 0
    /\ evictions = 0
    /\ processed = << >>
    /\ last_call = NoCall
    /\ signer = None
    /\ receiver = None

\* The clock is read by run(); now is the time it last read, and ClockReads
\* are the times a read of the clock can give.
ClockReads(last) == last .. Min(last + MaxClockStep, MaxTime)

\* The storage writes that can fail while `order` is admitted.
EnqueueFailures(order) ==
    {<<0, 0>>}
    \cup (IF faults < MaxFaults
          THEN {<<k, w>> : k \in DOMAIN order, w \in 1 .. 2}
          ELSE {})

\* The storage errors counted.
CountFault(ret) == faults' = IF ret = "err" THEN faults + 1 ELSE faults

\* What a call of enqueue_new_attachments on new_attachments did, for the
\* record of the last call: its result, the batches it pushed, and the
\* storage it found.
Admission(new_attachments, res) ==
    [new_attachments |-> new_attachments, ret |-> res.ret,
     resolved |-> res.resolved, pushed |-> res.queue \ priority_queue,
     db |-> atlasdb]

\* The host calls enqueue_new_attachments with newly discovered instances.
Enqueue ==
    /\ enqueues < MaxEnqueues
    /\ Cardinality(initial_batch) <= MaxEarlyInitial
    /\ IF ongoing_batch = None
       THEN TRUE
       ELSE ongoing_batch.state = "DNSLookup"
            /\ ongoing_batch.sub.state = "Initialized"
    /\ \E new_attachments \in NewAttachments :
       \E order \in Perms(new_attachments) :
       \E fail \in EnqueueFailures(order) :
          LET res == enqueue_new_attachments(priority_queue, atlasdb, order,
                                             FALSE, fail, next_bid)
          IN /\ priority_queue' = res.queue
             /\ atlasdb' = res.db
             /\ next_bid' = res.bid
             /\ last_call' = [call |-> "enqueue",
                              admission |-> Admission(new_attachments, res)]
             /\ CountFault(res.ret)
    /\ enqueues' = enqueues + 1
    /\ UNCHANGED <<now, config, initial_batch, ongoing_batch,
                   reliability_reports, sync_peers, next_event_id,
                   evictions, processed, signer, receiver>>

(***************************************************************************)
(* run().  It first admits the initial batch; `a` is the result of that.   *)
(***************************************************************************)
Admissions ==
    IF initial_batch = {}
    THEN {[ret |-> "ok", resolved |-> <<>>, queue |-> priority_queue,
           db |-> atlasdb, bid |-> next_bid]}
    ELSE UNION {{enqueue_new_attachments(priority_queue, atlasdb, order, TRUE,
                                         fail, next_bid) :
                    fail \in EnqueueFailures(order)} :
                order \in Perms(initial_batch)}

\* What run() returned, with what it did (popped: the batch it popped;
\* done: the batch it handled at Done, with the context and the history of
\* its state machine, the storage before the handling, the batch after it,
\* whether it was pushed back and the time bump_retry_count read).
RunReturned(ret, resolved, events, a, popped, done) ==
    [call |-> "run", ret |-> ret, resolved |-> resolved, events |-> events,
     admission |-> Admission(initial_batch, a), popped |-> popped,
     done |-> done]

\* The state machine of the ongoing batch.  history is a history field: the
\* reliability reports the context was created with, for every event id
\* of a request that finished in a poll, the stage and the peer URL of the
\* request and what the poll found, and the URLs whose lookup the last poll
\* of the DNS client found in flight.
AttachmentsBatchStateMachine(state, sub, context, history) ==
    [state |-> state, sub |-> sub, context |-> context, history |-> history]

\* The history after a poll that finds `found`.
Finished(machine, found) ==
    LET remaining == machine.sub.results.remaining
        done == {e \in DOMAIN remaining :
                   found[e].type \notin {"connecting", "waiting"}}
    IN [machine.history EXCEPT
          !.finished = [e \in DOMAIN @ \cup done |->
                          IF e \in done
                          THEN [stage |-> machine.state,
                                url |-> get_url(remaining[e]),
                                type |-> found[e].type]
                          ELSE @[e]]]

\* The admission of the initial batch returns a storage error.
RunAdmissionError(a) ==
    /\ a.ret = "err"
    /\ initial_batch' = {}
    /\ atlasdb' = a.db
    /\ next_bid' = a.bid
    /\ last_call' = RunReturned("err", <<>>, <<>>, a, None, None)
    /\ UNCHANGED <<now, config, priority_queue, ongoing_batch,
                   reliability_reports, next_event_id, evictions, processed>>

\* RunIdle popping the ready batch before it looks for peers.
RunIdle_pop_first(a) ==
    /\ a.ret = "ok"
    /\ ongoing_batch = None
    /\ \/ a.queue = {} /\ now' = now
       \/ /\ a.queue # {}
          /\ \E time \in ClockReads(now) :
                /\ ~has_ready_batches(a.queue, time)
                /\ now' = time
       \/ /\ a.queue # {}
          /\ \E time \in ClockReads(now) :
                /\ has_ready_batches(a.queue, time)
                /\ now' = time
    /\ initial_batch' = {}
    /\ priority_queue' =
          IF a.queue # {} /\ has_ready_batches(a.queue, now')
          THEN (CHOOSE popped \in pop_next_ready_batch(a.queue, now') : TRUE).queue
          ELSE a.queue
    /\ atlasdb' = a.db
    /\ next_bid' = a.bid
    /\ last_call' = RunReturned("ok", <<>>, <<>>, a, None, None)
    /\ UNCHANGED <<config, ongoing_batch, reliability_reports,
                   next_event_id, evictions, processed>>

\* No ongoing batch, and no batch is ready, or one is and the network has
\* no outbound sync peer with a data URL (the peers of the network come and
\* go: at a call there are none, or there are sync_peers).
RunIdle(a) ==
    /\ a.ret = "ok"
    /\ ongoing_batch = None
    /\ \/ a.queue = {} /\ now' = now
       \/ /\ a.queue # {}
          /\ \E time \in ClockReads(now) :
                /\ ~has_ready_batches(a.queue, time)
                /\ now' = time
       \/ /\ a.queue # {}
          /\ \E time \in ClockReads(now) :
                /\ has_ready_batches(a.queue, time)
                /\ now' = time
    /\ initial_batch' = {}
    /\ priority_queue' = a.queue
    /\ atlasdb' = a.db
    /\ next_bid' = a.bid
    /\ last_call' = RunReturned("ok", <<>>, <<>>, a, None, None)
    /\ UNCHANGED <<config, ongoing_batch, reliability_reports,
                   next_event_id, evictions, processed>>

\* No ongoing batch: the next ready batch is popped and its state machine
\* is created and proceeds from Initialized to DNSLookup.  The clock may
\* advance between has_ready_batches and pop_next_ready_batch.
RunStart(a) ==
    /\ a.ret = "ok"
    /\ ongoing_batch = None
    /\ a.queue # {}
    /\ \E peer_urls \in {sync_peers} :
       \E ready_time \in ClockReads(now) :
       \E time \in ClockReads(ready_time) :
       \E popped \in pop_next_ready_batch(a.queue, time) :
          LET batch == popped.batch
              peers == [u \in peer_urls |->
                          IF u \in DOMAIN reliability_reports
                          THEN reliability_reports[u]
                          ELSE ReliabilityReport_empty]
              ctx == AttachmentsBatchStateContext_new(batch, peers)
          IN /\ has_ready_batches(a.queue, ready_time)
             /\ now' = time
             /\ priority_queue' = popped.queue
             /\ IF batch = None
                THEN /\ ongoing_batch' = None
                     /\ processed' = processed
                     /\ last_call' = RunReturned("ok", <<>>, <<>>, a, None, None)
                ELSE /\ ongoing_batch' = AttachmentsBatchStateMachine(
                            "DNSLookup", DNSInitialized(get_peers_urls(ctx)), ctx,
                            [peers |-> peers, finished |-> << >>,
                             inflight |-> {}])
                     /\ processed' = Insert(processed, batch.bid,
                            IF batch.bid \in DOMAIN processed
                            THEN processed[batch.bid] + 1 ELSE 1)
                     /\ last_call' = RunReturned("ok", a.resolved, <<>>, a,
                                                 batch, None)
    /\ initial_batch' = {}
    /\ atlasdb' = a.db
    /\ next_bid' = a.bid
    /\ UNCHANGED <<config, reliability_reports, next_event_id, evictions>>

\* What run() leaves when the ongoing batch proceeds to a state other than
\* Done.
RunProceeds(a, next_state) ==
    /\ ongoing_batch' = next_state
    /\ initial_batch' = {}
    /\ priority_queue' = a.queue
    /\ atlasdb' = a.db
    /\ next_bid' = a.bid
    /\ last_call' = RunReturned("ok", a.resolved, <<>>, a, None, None)
    /\ UNCHANGED <<now, config, reliability_reports, evictions, processed>>

\* DNSLookup, the lookups in BatchedDNSLookupsState::Initialized.
RunDNSInitialized(a) ==
    /\ a.ret = "ok"
    /\ ongoing_batch # None
    /\ ongoing_batch.state = "DNSLookup"
    /\ ongoing_batch.sub.state = "Initialized"
    /\ \E kind \in [ongoing_batch.sub.urls -> UrlKinds] :
          RunProceeds(a, [ongoing_batch EXCEPT
                            !.sub = DNSInitStep(ongoing_batch.sub.urls, kind)])
    /\ UNCHANGED next_event_id

\* DNSLookup, the lookups in Resolving: when they are done the inventory
\* requests are built.
RunDNSResolving(a) ==
    /\ a.ret = "ok"
    /\ ongoing_batch # None
    /\ ongoing_batch.state = "DNSLookup"
    /\ ongoing_batch.sub.state = "Resolving"
    /\ \E recv_ok \in BOOLEAN :
       \E found \in [ongoing_batch.sub.parsed_urls -> LookupPolls] :
          LET sub == DNSResolveStep(ongoing_batch.sub, recv_ok, found)
              context == [ongoing_batch.context EXCEPT
                            !.dns_lookups = sub.dns_lookups]
              history == [ongoing_batch.history EXCEPT
                            !.inflight =
                                IF recv_ok
                                THEN {u \in DOMAIN found : found[u] = "inflight"}
                                ELSE @]
          IN IF sub.state = "Done"
             THEN RunProceeds(a, AttachmentsBatchStateMachine(
                     "DownloadingAttachmentsInv",
                     BeginRequests(
                         get_prioritized_attachments_inventory_requests(context),
                         None),
                     context, history))
             ELSE RunProceeds(a, [ongoing_batch EXCEPT !.sub = sub,
                                                       !.history = history])
    /\ UNCHANGED next_event_id

\* A request stage in BeginRequests: up to max_inflight_attachments requests
\* are begun.
RunBeginRequests(a) ==
    /\ a.ret = "ok"
    /\ ongoing_batch # None
    /\ ongoing_batch.state \in {"DownloadingAttachmentsInv", "DownloadingAttachment"}
    /\ ongoing_batch.sub.state = "BeginRequests"
    /\ \E begun \in BeginLoop(
                ongoing_batch.sub.queue,
                IF ongoing_batch.sub.results = None THEN BatchedRequestsResult_new
                ELSE ongoing_batch.sub.results,
                next_event_id,
                ongoing_batch.context.dns_lookups,
                config.max_inflight_attachments) :
          /\ RunProceeds(a, [ongoing_batch EXCEPT
                               !.sub = PollRequests(begun.queue, begun.results)])
          /\ next_event_id' = begun.event_id

\* What each outstanding request of the ongoing batch can be found in.
Founds ==
    LET remaining == ongoing_batch.sub.results.remaining
    IN {found \in [DOMAIN remaining -> UNION {Polls(remaining[e]) :
                                                e \in DOMAIN remaining}] :
          \A e \in DOMAIN remaining : found[e] \in Polls(remaining[e])}

\* The inventory stage in PollRequests: when the requests are done the
\* context is extended with the inventories and the attachment requests are
\* built.
RunPollInventories(a) ==
    /\ a.ret = "ok"
    /\ ongoing_batch # None
    /\ ongoing_batch.state = "DownloadingAttachmentsInv"
    /\ ongoing_batch.sub.state = "PollRequests"
    /\ \E found \in Founds :
          LET sub == PollStep(ongoing_batch.sub.queue, ongoing_batch.sub.results,
                              found)
              context == extend_with_inventories(ongoing_batch.context, sub.results)
          IN IF sub.state = "Done"
             THEN \E requests_queue \in get_prioritized_attachments_requests(context) :
                    RunProceeds(a, AttachmentsBatchStateMachine(
                        "DownloadingAttachment",
                        BeginRequests(requests_queue, None),
                        context, Finished(ongoing_batch, found)))
             ELSE RunProceeds(a, [ongoing_batch EXCEPT
                                    !.sub = sub,
                                    !.history = Finished(ongoing_batch, found)])
    /\ UNCHANGED next_event_id

(***************************************************************************)
(* The handling of Done.  The environment gives the random number of the   *)
(* back-off, the storage call that fails (fail: "none", "attachments" with *)
(* `stored` the attachments handled before the failure, "evict1",          *)
(* "evict2") and what has expired.                                         *)
(***************************************************************************)
\* The loop over context.attachments, on the attachments `todo`: the storage,
\* the pairs resolved and the batch it leaves.
ResolveLoop(todo, db0, batch0) ==
    LET atts == SetToSeq(todo)
        RECURSIVE Go(_, _)
        Go(k, acc) ==
            IF k > Len(atts) THEN acc
            ELSE LET attachment == atts[k]
                     attachments_instances ==
                         find_all_attachment_instances(acc.db, HashOf(attachment))
                 IN Go(k + 1,
                       [db |-> insert_instantiated_attachment(acc.db, attachment),
                        resolved |-> acc.resolved
                            \o [j \in 1 .. Cardinality(attachments_instances) |->
                                   <<SetToSeq(attachments_instances)[j], attachment>>],
                        batch |-> resolve_attachment(acc.batch, HashOf(attachment))])
    IN Go(1, [db |-> db0, resolved |-> <<>>, batch |-> batch0])

\* The re-insertion of a batch that is not fully processed: the batch after
\* the handling, and whether it is pushed back.
Reinsert(batch, time, r) ==
    IF ~has_fully_succeed(batch)
    THEN LET bumped == bump_retry_count(batch, time, r)
         IN [batch |-> bumped,
             pushed |-> U64Lt(bumped.retry_count, config.max_attachment_retry_count)]
    ELSE [batch |-> batch, pushed |-> FALSE]

\* The reliability reports with those of the context written over them.
UpdateReports(reports, peers) ==
    [u \in DOMAIN reports \cup DOMAIN peers |->
        IF u \in DOMAIN peers THEN peers[u] ELSE reports[u]]

RunDone(a, context, history, time, r, fail, stored, expire1, expire2) ==
    \E loop \in {ResolveLoop(IF fail = "attachments" THEN stored
                             ELSE context.attachments,
                             a.db, context.attachments_batch)} :
    \E db1 \in {evict_expired_uninstantiated_attachments(loop.db, expire1)} :
    \E db2 \in {evict_expired_unresolved_attachment_instances(db1, expire2)} :
    \E re \in {Reinsert(loop.batch, time, r)} :
    \E done \in {[batch |-> context.attachments_batch,
                  attachments |-> context.attachments,
                  peers |-> context.peers,
                  history |-> history,
                  db |-> a.db,
                  final |-> re.batch,
                  pushed |-> re.pushed,
                  time |-> time]} :
       /\ ongoing_batch' = None
       /\ initial_batch' = {}
       /\ next_bid' = a.bid
       /\ IF fail = "none"
          THEN /\ atlasdb' = db2
               /\ reliability_reports' =
                      UpdateReports(reliability_reports, context.peers)
               /\ priority_queue' =
                      IF re.pushed THEN a.queue \cup {re.batch} ELSE a.queue
               /\ last_call' = RunReturned(
                      "ok", a.resolved \o loop.resolved,
                      context.events_to_deregister, a, None, done)
               /\ now' = time
          ELSE /\ atlasdb' = IF fail = "evict2" THEN db1 ELSE loop.db
               /\ reliability_reports' = reliability_reports
               /\ priority_queue' = a.queue
               /\ last_call' = RunReturned(
                      "err", <<>>, <<>>, a, None,
                      [done EXCEPT !.final = loop.batch, !.pushed = FALSE,
                                   !.time = now])
               /\ now' = now
       /\ evictions' = IF \/ (fail = "none" /\ (expire1 \/ expire2))
                           \/ (fail = "evict2" /\ expire1)
                        THEN evictions + 1 ELSE evictions
       /\ UNCHANGED <<config, next_event_id, processed>>

\* The storage failures of the handling of Done.
DoneFailures(context) ==
    {<<"none", {}>>}
    \cup (IF faults < MaxFaults
          THEN {<<"evict1", {}>>, <<"evict2", {}>>}
               \cup {<<"attachments", stored>> :
                       stored \in (SUBSET context.attachments)
                                     \ {context.attachments}}
          ELSE {})

\* The times bump_retry_count can read when the handling of Done comes to
\* the re-insertion of the batch; the clock is not read when the batch is
\* fully resolved.
DoneTimes(a, context) ==
    IF has_fully_succeed(
           ResolveLoop(context.attachments, a.db, context.attachments_batch).batch)
    THEN {now}
    ELSE ClockReads(now)

\* The attachment stage in PollRequests: when the requests are done the
\* context is extended with the attachments and the batch is Done.
RunPollAttachments(a) ==
    /\ a.ret = "ok"
    /\ ongoing_batch # None
    /\ ongoing_batch.state = "DownloadingAttachment"
    /\ ongoing_batch.sub.state = "PollRequests"
    /\ \E found \in Founds :
       \E sub \in {PollStep(ongoing_batch.sub.queue, ongoing_batch.sub.results,
                            found)} :
       \E context \in {extend_with_attachments(ongoing_batch.context,
                                               sub.results)} :
             IF sub.state = "Done"
             THEN \E time \in DoneTimes(a, context) :
                  \E r \in 0 .. MaxRand :
                  \E fail \in DoneFailures(context) :
                  \E expire \in {FALSE} \cup {evictions < MaxEvictions} :
                    RunDone(a, context, Finished(ongoing_batch, found),
                            time, r, fail[1], fail[2], expire, expire)
             ELSE /\ RunProceeds(a, [ongoing_batch EXCEPT
                                       !.sub = sub,
                                       !.history = Finished(ongoing_batch, found)])
                  /\ UNCHANGED next_event_id

\* One run() call of the host.
Run ==
    \E a \in Admissions :
        /\ \/ RunAdmissionError(a)
           \/ RunIdle(a)
           \/ RunStart(a)
           \/ RunDNSInitialized(a)
           \/ RunDNSResolving(a)
           \/ RunBeginRequests(a)
           \/ RunPollInventories(a)
           \/ RunPollAttachments(a)
        /\ CountFault(last_call'.ret)
        /\ enqueues' = IF initial_batch = {} THEN enqueues ELSE enqueues + 1
        /\ UNCHANGED <<sync_peers, signer, receiver>>

Next == Enqueue \/ Run

Spec == Init /\ [][Next]_vars

(***************************************************************************)
(* The priority queue alone: has_ready_batches and pop_next_ready_batch on *)
(* every queue of at most MaxProbeQueue batches, at every time, and the    *)
(* re-insertion of the popped batch after bump_retry_count.                *)
(***************************************************************************)
\* A batch tracking `count` instances of the block of height `height`.
ProbeBatch(bid, count, height, deadline, retry_count) ==
    LET RECURSIVE Track(_, _)
        Track(k, batch) ==
            IF k = count THEN batch
            ELSE Track(k + 1,
                       track_attachment(
                           batch,
                           AttachmentInstance("c1", k, height, height, k + 1)))
    IN [Track(0, AttachmentsBatch_new(bid)) EXCEPT
          !.retry_deadline = deadline, !.retry_count = retry_count]

ProbeBatches(bid) ==
    {ProbeBatch(bid, count, height, deadline, U64(0)) :
        count \in 1 .. MaxProbeMissing,
        height \in 1 .. MaxProbeHeight,
        deadline \in 0 .. MaxProbeDeadline}

RECURSIVE ProbeQueues(_)
ProbeQueues(n) ==
    IF n = 0 THEN {{}}
    ELSE ProbeQueues(n - 1)
         \cup {queue \cup {batch} :
                 queue \in {q \in ProbeQueues(n - 1) : Cardinality(q) = n - 1},
                 batch \in ProbeBatches(n)}

\* The variables the queue alone does not use.
QueueFrame ==
    <<config, initial_batch, ongoing_batch, reliability_reports, atlasdb,
      sync_peers, next_event_id, next_bid, enqueues, faults, evictions,
      processed, signer, receiver>>

QueueInit ==
    /\ now \in 0 .. MaxTime
    /\ priority_queue \in ProbeQueues(MaxProbeQueue)
    /\ config = [max_attachment_retry_count |-> MaxRetryConfig,
                 max_inflight_attachments |-> 1]
    /\ initial_batch = {}
    /\ ongoing_batch = None
    /\ reliability_reports = << >>
    /\ atlasdb = EmptyStore({})
    /\ sync_peers = {}
    /\ next_event_id = 0
    /\ next_bid = MaxProbeQueue + 1
    /\ enqueues = 0
    /\ faults = 0
    /\ evictions = 0
    /\ processed = << >>
    /\ last_call = NoCall
    /\ signer = None
    /\ receiver = None

\* has_ready_batches at the time the clock gives, asked_at, and then
\* pop_next_ready_batch at the time it gives then, as run() calls them;
\* asked is the answer of has_ready_batches, and ready what it would
\* answer at the time of the pop.
QueuePop ==
    \E asked_at \in ClockReads(now) :
    \E time \in ClockReads(asked_at) :
    \E popped \in pop_next_ready_batch(priority_queue, time) :
        /\ now' = time
        /\ priority_queue' = popped.queue
        /\ last_call' = [call |-> "pop", time |-> time,
                         ready |-> has_ready_batches(priority_queue, time),
                         asked_at |-> asked_at,
                         asked |-> has_ready_batches(priority_queue, asked_at),
                         before |-> priority_queue, popped |-> popped.batch]
        /\ UNCHANGED QueueFrame

\* The batch popped last is re-inserted as run() does at Done.
QueueRetry ==
    /\ last_call.call = "pop"
    /\ last_call.popped # None
    /\ \E r \in 0 .. MaxRand :
          LET re == Reinsert(last_call.popped, now, r)
          IN /\ priority_queue' =
                    IF re.pushed THEN priority_queue \cup {re.batch}
                    ELSE priority_queue
             /\ last_call' = [call |-> "retry", time |-> now,
                              before |-> last_call.popped, after |-> re.batch,
                              pushed |-> re.pushed]
    /\ UNCHANGED now
    /\ UNCHANGED QueueFrame

QueueNext == QueuePop \/ QueueRetry

SpecQueue == QueueInit /\ [][QueueNext]_vars

(***************************************************************************)
(* bump_retry_count alone, on a batch of every retry count of              *)
(* ProbeRetryCounts, at every time, with the random numbers ProbeRands.    *)
(***************************************************************************)
\* 0 .. MaxProbeRetry, and the retry counts 2^32 - 2, 2^32 - 1 and 2^32.
ProbeRetryCounts ==
    {U64(n) : n \in 0 .. MaxProbeRetry}
    \cup {[hi |-> 1, lo |-> n] : n \in -2 .. 0}

\* Random numbers below and above the powers of two they are reduced by.
ProbeRands == {0, 1, 2, 3, 255, 256, 599, 1023}

BumpInit ==
    /\ now \in 0 .. MaxTime
    /\ \E retry_count \in ProbeRetryCounts :
          priority_queue = {ProbeBatch(1, 1, 1, 0, retry_count)}
    /\ config = [max_attachment_retry_count |-> MaxRetryConfig,
                 max_inflight_attachments |-> 1]
    /\ initial_batch = {}
    /\ ongoing_batch = None
    /\ reliability_reports = << >>
    /\ atlasdb = EmptyStore({})
    /\ sync_peers = {}
    /\ next_event_id = 0
    /\ next_bid = 2
    /\ enqueues = 0
    /\ faults = 0
    /\ evictions = 0
    /\ processed = << >>
    /\ last_call = NoCall
    /\ signer = None
    /\ receiver = None

\* bump_retry_count on the batch, as long as its retry count is one of
\* ProbeRetryCounts.
BumpRetry ==
    \E batch \in priority_queue :
    \E r \in ProbeRands :
        /\ batch.retry_count \in ProbeRetryCounts
        /\ priority_queue' = {bump_retry_count(batch, now, r)}
        /\ last_call' = [call |-> "bump", time |-> now, r |-> r,
                         before |-> batch,
                         after |-> bump_retry_count(batch, now, r)]
        /\ UNCHANGED now
        /\ UNCHANGED QueueFrame

BumpNext == BumpRetry

SpecBump == BumpInit /\ [][BumpNext]_vars

(***************************************************************************)
(* A reliability report alone: bump_successful_requests and                *)
(* bump_failed_requests on the reports of ProbeReports, each of which a    *)
(* sequence of bumps reaches from the empty report (total_requests_success *)
(* successes, then failures up to total_requests_sent).                    *)
(***************************************************************************)
\* 0 .. MaxProbeSent, the counts around the greatest n with n * 1000 in u32,
\* those around 2^29 (2^29 * 1000 wraps to 0), and 2^32 - 2 and 2^32 - 1.
ProbeSents ==
    (0 .. MaxProbeSent)
    \cup {U32MaxTimes1000 - 1, U32MaxTimes1000, U32MaxTimes1000 + 1}
    \cup {536870911, 536870912}
    \cup {-2, -1}

ProbeReports ==
    {r \in {ReliabilityReport_new(sent, success) :
               sent \in ProbeSents, success \in ProbeSents} :
        ~U32Lt(r.total_requests_sent, r.total_requests_success)}

ReportInit ==
    /\ now = 0
    /\ reliability_reports \in {[u \in {"u1"} |-> r] : r \in ProbeReports}
    /\ priority_queue = {}
    /\ config = [max_attachment_retry_count |-> MaxRetryConfig,
                 max_inflight_attachments |-> 1]
    /\ initial_batch = {}
    /\ ongoing_batch = None
    /\ atlasdb = EmptyStore({})
    /\ sync_peers = {}
    /\ next_event_id = 0
    /\ next_bid = 1
    /\ enqueues = 0
    /\ faults = 0
    /\ evictions = 0
    /\ processed = << >>
    /\ last_call = NoCall
    /\ signer = None
    /\ receiver = None

\* The variables a report alone does not use.
ReportFrame ==
    <<now, config, priority_queue, initial_batch, ongoing_batch, atlasdb,
      sync_peers, next_event_id, next_bid, enqueues, faults, evictions,
      processed, signer, receiver>>

\* A bump of the report, which becomes `after`.  Where total_requests_sent
\* is u32::MAX the addition overflows: a build with overflow checks panics
\* and one without wraps.
ReportBump(call, after) ==
    /\ reliability_reports["u1"] \in ProbeReports
    /\ \E panicked \in
            IF reliability_reports["u1"].total_requests_sent = -1
            THEN BOOLEAN ELSE {FALSE} :
          /\ reliability_reports' =
                IF panicked THEN reliability_reports
                ELSE [u \in {"u1"} |-> after]
          /\ last_call' = [call |-> call, before |-> reliability_reports["u1"],
                           after |-> after, panicked |-> panicked]
    /\ UNCHANGED ReportFrame

ReportSuccess ==
    ReportBump("bump_successful_requests",
               bump_successful_requests(reliability_reports["u1"]))

ReportFailure ==
    ReportBump("bump_failed_requests",
               bump_failed_requests(reliability_reports["u1"]))

ReportNext == ReportSuccess \/ ReportFailure

SpecReport == ReportInit /\ [][ReportNext]_vars


(***************************************************************************)
(* The request queue alone: a batch in DownloadingAttachment whose queue   *)
(* holds the requests of ProbeRequestQueues, with every peer resolved;     *)
(* BeginRequests serves the queue and PollRequests polls what was begun.   *)
(***************************************************************************)
ProbeSourceReports ==
    {ReliabilityReport_empty, ReliabilityReport_new(2, 1),
     ReliabilityReport_new(2, 2), ReliabilityReport_new(3, 1)}

\* The requests for the content hash h: its sources are any peers with any
\* of the reports, and any source of greatest score is the most reliable.
ProbeRequests(h) ==
    UNION {UNION {{AttachmentRequest(h, sources, u) :
                      u \in most_reliable_sources(sources)} :
                  sources \in [peers -> ProbeSourceReports]} :
           peers \in (SUBSET Urls) \ {{}}}

\* The queues of up to n requests, for the content hashes 1 .. n.
RECURSIVE ProbeRequestQueues(_)
ProbeRequestQueues(n) ==
    IF n = 0 THEN {{}}
    ELSE ProbeRequestQueues(n - 1)
         \cup {queue \cup {request} :
                 queue \in {q \in ProbeRequestQueues(n - 1) : Cardinality(q) = n - 1},
                 request \in ProbeRequests(n)}

RequestsInit ==
    /\ now = 0
    /\ config \in Configs({MaxRetryConfig}, 1 .. MaxInflightConfig)
    /\ priority_queue = {}
    /\ initial_batch = {}
    /\ \E queue \in ProbeRequestQueues(MaxProbeRequests) :
          LET peers == [u \in Urls |-> ReliabilityReport_empty]
              ctx == AttachmentsBatchStateContext_new(
                         ProbeBatch(1, MaxProbeRequests, 1, 0, U64(0)), peers)
          IN ongoing_batch = AttachmentsBatchStateMachine(
                 "DownloadingAttachment",
                 BeginRequests(queue, None),
                 [ctx EXCEPT !.dns_lookups = [u \in Urls |-> "Some"]],
                 [peers |-> peers, finished |-> << >>, inflight |-> {}])
    /\ reliability_reports = << >>
    /\ atlasdb = EmptyStore({})
    /\ sync_peers = Urls
    /\ next_event_id = 0
    /\ next_bid = 2
    /\ enqueues = 0
    /\ faults = 0
    /\ evictions = 0
    /\ processed = << >>
    /\ last_call = NoCall
    /\ signer = None
    /\ receiver = None

\* The variables the request queue alone does not use.
RequestsFrame ==
    <<now, config, priority_queue, initial_batch, reliability_reports, atlasdb,
      sync_peers, next_bid, enqueues, faults, evictions, processed, signer, receiver>>

\* The requests begun so far, by event id: each recorded call carries them.
RequestsBegun ==
    IF "begun" \in DOMAIN last_call THEN last_call.begun ELSE << >>

\* BatchedRequestsState::try_proceed in BeginRequests.
RequestsBegin ==
    /\ ongoing_batch.sub.state = "BeginRequests"
    /\ \E begun \in BeginLoop(
                ongoing_batch.sub.queue,
                IF ongoing_batch.sub.results = None THEN BatchedRequestsResult_new
                ELSE ongoing_batch.sub.results,
                next_event_id,
                ongoing_batch.context.dns_lookups,
                config.max_inflight_attachments) :
          /\ ongoing_batch' = [ongoing_batch EXCEPT
                                 !.sub = PollRequests(begun.queue, begun.results)]
          /\ next_event_id' = begun.event_id
          /\ last_call' = [call |-> "begin_requests",
                           queue |-> ongoing_batch.sub.queue,
                           remaining |-> begun.results.remaining,
                           rest |-> begun.queue,
                           begun |-> [e \in DOMAIN RequestsBegun
                                            \cup DOMAIN begun.results.remaining |->
                                        IF e \in DOMAIN begun.results.remaining
                                        THEN begun.results.remaining[e]
                                        ELSE RequestsBegun[e]]]
    /\ UNCHANGED RequestsFrame

\* BatchedRequestsState::try_proceed in PollRequests.
RequestsPoll ==
    /\ ongoing_batch.sub.state = "PollRequests"
    /\ \E found \in Founds :
          /\ ongoing_batch' = [ongoing_batch EXCEPT
                                 !.sub = PollStep(ongoing_batch.sub.queue,
                                                  ongoing_batch.sub.results, found),
                                 !.history = Finished(ongoing_batch, found)]
          /\ last_call' = [call |-> "poll_requests",
                           queue |-> ongoing_batch.sub.queue,
                           remaining |-> ongoing_batch.sub.results.remaining,
                           found |-> found,
                           begun |-> RequestsBegun]
    /\ UNCHANGED next_event_id
    /\ UNCHANGED RequestsFrame

RequestsNext == RequestsBegin \/ RequestsPoll

SpecRequests == RequestsInit /\ [][RequestsNext]_vars

(***************************************************************************)
(* A batch alone: resolve_attachment on the batches that track any of the  *)
(* indexes 0 .. MaxProbeIndexes - 1 of two contracts, each under any of    *)
(* the content hashes 1 .. MaxProbeHashes.  The batch is the one of the    *)
(* queue.                                                                  *)
(***************************************************************************)
ProbeSlots == {"c1", "c2"} \X (0 .. MaxProbeIndexes - 1)

RECURSIVE TrackAll(_, _)
TrackAll(instances, batch) ==
    IF instances = {} THEN batch
    ELSE LET instance == CHOOSE x \in instances : TRUE
         IN TrackAll(instances \ {instance}, track_attachment(batch, instance))

ProbeTrackedBatches ==
    {TrackAll({AttachmentInstance(slot[1], slot[2], 1, 1, hashes[slot]) :
                  slot \in DOMAIN hashes},
              AttachmentsBatch_new(1)) :
        hashes \in UNION {[slots -> 1 .. MaxProbeHashes] :
                             slots \in SUBSET ProbeSlots}}

ResolveInit ==
    /\ now = 0
    /\ config = [max_attachment_retry_count |-> MaxRetryConfig,
                 max_inflight_attachments |-> 1]
    /\ priority_queue \in {{batch} : batch \in ProbeTrackedBatches}
    /\ initial_batch = {}
    /\ ongoing_batch = None
    /\ reliability_reports = << >>
    /\ atlasdb = EmptyStore({})
    /\ sync_peers = {}
    /\ next_event_id = 0
    /\ next_bid = 2
    /\ enqueues = 0
    /\ faults = 0
    /\ evictions = 0
    /\ processed = << >>
    /\ last_call = NoCall
    /\ signer = None
    /\ receiver = None

\* resolve_attachment on the batch, for a content hash it tracks or not.
\* twice tells that the call before was resolve_attachment of the same hash.
Resolve ==
    \E batch \in priority_queue :
    \E content_hash \in 1 .. MaxProbeHashes + 1 :
        /\ priority_queue' = {resolve_attachment(batch, content_hash)}
        /\ last_call' = [call |-> "resolve_attachment",
                         content_hash |-> content_hash,
                         before |-> batch,
                         after |-> resolve_attachment(batch, content_hash),
                         twice |-> /\ last_call.call = "resolve_attachment"
                                   /\ last_call.content_hash = content_hash]
        /\ UNCHANGED now
        /\ UNCHANGED QueueFrame

ResolveNext == Resolve

SpecResolve == ResolveInit /\ [][ResolveNext]_vars

(***************************************************************************)
(* The signer run loop (stacks-signer/src/runloop.rs).  `signer` is the    *)
(* RunLoop: its state, its queue of commands, its cache of proposed        *)
(* blocks, the transactions it expects, and of its coordinator the         *)
(* aggregate public key and the message of the signing round.  A Vec<u8>   *)
(* is a sequence of bytes, and a byte is a string here: a serialized block *)
(* is the one byte that names the block, its signature hash the one byte   *)
(* that names the hash.  History fields of `signer`: halted tells that a   *)
(* run_one_pass call panicked or never returned, next_id numbers the       *)
(* commands in the order they are added to the queue, started lists the    *)
(* commands started, in_flight counts the rounds started and not finished, *)
(* given and events count the commands and events the host has passed.     *)
(* The downloader and the signer do not share state: the downloader's      *)
(* specifications leave signer at None.  `receiver` is the event receiver  *)
(* of libsigner, at None in the specifications of the other two.           *)
(***************************************************************************)
SignerBlocks == {"b1", "b2"}

ExpectedTxid == "t1"

\* The txids of the transactions of a block.
BlockTxids(block) == IF block = "b2" THEN {ExpectedTxid} ELSE {}

\* NakamotoBlock::serialize_to_vec
serialize_to_vec(block) == <<block>>

\* NakamotoBlockHeader::signature_hash, as bytes
signature_hash(block) == <<IF block = "b1" THEN "h1" ELSE "h2">>

\* Option::Some
Some(x) == [some |-> x]

\* read_next::<NakamotoBlock, _>: the block the bytes begin with, if any.
read_next(bytes) ==
    IF Len(bytes) > 0 /\ bytes[1] \in SignerBlocks THEN Some(bytes[1]) ELSE None

\* RunLoopCommand
Dkg == [command |-> "Dkg"]

Sign(message, is_taproot, merkle_root) ==
    [command |-> "Sign", message |-> message, is_taproot |-> is_taproot,
     merkle_root |-> merkle_root]

\* An entry of the command queue.  id and by are history fields: the number
\* of the command in the order of addition, and what added it ("cmd" for
\* run_one_pass, "initialize", "block_proposal").
Queued(command, id, by) == [command |-> command, id |-> id, by |-> by]

\* A BlockInfo.  validated is a history field: the node has answered Ok for
\* the block since the entry was inserted.
BlockInfo(block, vote, valid) ==
    [block |-> block, vote |-> vote, valid |-> valid, validated |-> FALSE]

\* impl From<&Config> for RunLoop
RunLoop_from(signer_id, transactions) ==
    [signer_id |-> signer_id,
     coordinator |-> [aggregate_public_key |-> None, message |-> <<>>],
     commands |-> <<>>,
     state |-> "Uninitialized",
     blocks |-> << >>,
     transactions |-> transactions,
     halted |-> "no",
     next_id |-> 1,
     started |-> <<>>,
     in_flight |-> 0,
     given |-> 0,
     events |-> 0]

\* calculate_coordinator: the id of the coordinator.
calculate_coordinator == 0

\* VecDeque::push_back
push_back(s, command, by) ==
    [s EXCEPT !.commands = Append(@, Queued(command, s.next_id, by)),
              !.next_id = @ + 1]

\* VecDeque::push_front
push_front(s, command, by) ==
    [s EXCEPT !.commands = <<Queued(command, s.next_id, by)>> \o @,
              !.next_id = @ + 1]

\* VecDeque::pop_back in the place of pop_front.
pop_front_last(commands) ==
    [entry |-> commands[Len(commands)],
     rest |-> SubSeq(commands, 1, Len(commands) - 1)]

\* VecDeque::pop_front of a queue that is not empty
pop_front(commands) == [entry |-> Head(commands), rest |-> Tail(commands)]

\* RunLoop::initialize when get_aggregate_public_key returns
\* Ok(aggregate_key).
initialize(s, aggregate_key) ==
    IF aggregate_key # None
    THEN [s EXCEPT !.coordinator.aggregate_public_key = aggregate_key,
                   !.state = "Idle"]
    ELSE LET requeue ==
                 /\ calculate_coordinator = s.signer_id
                 /\ \/ s.commands = <<>>
                    \/ Head(s.commands).command # Dkg
             s1 == IF requeue THEN push_front(s, Dkg, "initialize") ELSE s
         IN [s1 EXCEPT !.state = "Idle"]

\* RunLoop::execute_command when the coordinator starts the round: the
\* coordinator of a signing round holds its message.
execute_command(s, entry) ==
    [s EXCEPT !.state = entry.command.command,
              !.coordinator.message =
                  IF entry.command.command = "Sign" THEN entry.command.message
                  ELSE @,
              !.started = Append(@, entry),
              !.in_flight = @ + 1]

\* process_next_command that does not look at the state.
process_next_command_any_state(s, starts) ==
    IF s.state # "Uninitialized" /\ s.commands # <<>>
    THEN LET popped == pop_front(s.commands)
             s1 == [s EXCEPT !.commands = popped.rest]
         IN [signer |-> IF starts THEN execute_command(s1, popped.entry)
                        ELSE [s1 EXCEPT !.halted = "hung"],
             dequeued |-> <<popped.entry>>]
    ELSE [signer |-> s, dequeued |-> <<>>]

\* RunLoop::process_next_command.  execute_command is retried until it
\* returns true: `starts` tells that it does at last, and the call never
\* returns if it does not.
process_next_command(s, starts) ==
    IF s.state = "Idle" /\ s.commands # <<>>
    THEN LET popped == pop_front(s.commands)
             s1 == [s EXCEPT !.commands = popped.rest]
         IN [signer |-> IF starts THEN execute_command(s1, popped.entry)
                        ELSE [s1 EXCEPT !.halted = "hung"],
             dequeued |-> <<popped.entry>>]
    ELSE [signer |-> s, dequeued |-> <<>>]

\* What the handling of an event leaves: the signer, the block responses
\* passed to StackerDB::send_message_with_retry, the blocks submitted to the
\* node for validation, the operation results sent to the host, and the
\* inbound messages handed to the coordinator and the signing round.
Handled(s, sent, submitted, results) ==
    [signer |-> s, sent |-> sent, submitted |-> submitted, results |-> results,
     inbound |-> <<>>]

\* HashMap::entry(key).and_modify(valid = v)
SetValid(blocks, hash, valid) ==
    [k \in DOMAIN blocks |->
        IF k = hash
        THEN [blocks[k] EXCEPT !.valid = valid, !.validated = @ \/ valid]
        ELSE blocks[k]]

\* The messages for the miners.
Accepted(block) == [type |-> "Accepted", block |-> block]

Rejected(block, reason) == [type |-> "Rejected", block |-> block, reason |-> reason]

\* handle_block_validate_response that queues the Sign command whoever the
\* coordinator is.
handle_block_validate_response_any_signer(s, response) ==
    LET hash == signature_hash(response.block)
        s1 == [s EXCEPT !.blocks = SetValid(@, hash, response.type = "Ok")]
    IN IF response.type = "Ok"
       THEN Handled(push_back(s1, Sign(serialize_to_vec(response.block),
                                       FALSE, None),
                              "block_proposal"),
                    <<>>, <<>>, <<>>)
       ELSE Handled(s1, <<Rejected(response.block, "ValidationFailed")>>,
                    <<>>, <<>>)

\* handle_block_validate_response that leaves the cache alone.
handle_block_validate_response_cache_kept(s, response) ==
    IF response.type = "Ok"
    THEN Handled(IF calculate_coordinator = s.signer_id
                 THEN push_back(s, Sign(serialize_to_vec(response.block),
                                        FALSE, None),
                                "block_proposal")
                 ELSE s,
                 <<>>, <<>>, <<>>)
    ELSE Handled(s, <<Rejected(response.block, "ValidationFailed")>>,
                 <<>>, <<>>)

\* RunLoop::handle_block_validate_response
handle_block_validate_response(s, response) ==
    LET hash == signature_hash(response.block)
        s1 == [s EXCEPT !.blocks = SetValid(@, hash, response.type = "Ok")]
    IN IF response.type = "Ok"
       THEN Handled(IF calculate_coordinator = s.signer_id
                    THEN push_back(s1, Sign(serialize_to_vec(response.block),
                                            FALSE, None),
                                   "block_proposal")
                    ELSE s1,
                    <<>>, <<>>, <<>>)
       ELSE Handled(s1, <<Rejected(response.block, "ValidationFailed")>>,
                    <<>>, <<>>)

\* RunLoop::handle_stackerdb_chunk_event_miners
RECURSIVE handle_stackerdb_chunk_event_miners(_, _)
handle_stackerdb_chunk_event_miners(s, modified_slots) ==
    IF modified_slots = <<>> THEN Handled(s, <<>>, <<>>, <<>>)
    ELSE LET read == read_next(Head(modified_slots))
             block == read.some
             hash_bytes == signature_hash(block)
             s1 == IF read = None THEN s
                   ELSE [s EXCEPT !.blocks =
                            Insert(@, hash_bytes, BlockInfo(block, None, FALSE))]
             rest == handle_stackerdb_chunk_event_miners(s1, Tail(modified_slots))
         IN Handled(rest.signer, <<>>,
                    (IF read = None THEN <<>> ELSE <<block>>) \o rest.submitted,
                    <<>>)

\* validate_signature_share_request that signs every request as it is.
validate_signature_share_request_as_is(s, request) ==
    IF request.message \in DOMAIN s.blocks
    THEN [request |-> request, valid |-> s.blocks[request.message].vote # None]
    ELSE [request |-> request, valid |-> TRUE]

\* RunLoop::validate_signature_share_request: the request it leaves, and
\* whether it is valid.
validate_signature_share_request(s, request) ==
    IF request.message \in DOMAIN s.blocks
    THEN IF s.blocks[request.message].vote # None
         THEN [request |-> [request EXCEPT
                              !.message = s.blocks[request.message].vote.some],
               valid |-> TRUE]
         ELSE [request |-> request, valid |-> FALSE]
    ELSE [request |-> request, valid |-> TRUE]

\* RunLoop::validate_block
\* validate_block without the look at the valid flag of the entry.
validate_block_unvalidated(block_info, transactions) ==
    ~\E txid \in transactions : txid \in BlockTxids(block_info.block)

validate_block(block_info, transactions) ==
    /\ block_info.valid
    /\ ~\E txid \in transactions : txid \in BlockTxids(block_info.block)

\* validate_nonce_request that votes for the block whatever validate_block
\* says.
validate_nonce_request_votes_yes(s, request) ==
    LET read == read_next(request.message)
        block == read.some
        hash == signature_hash(block)
        block_info == IF hash \in DOMAIN s.blocks THEN s.blocks[hash]
                      ELSE BlockInfo(block, None, FALSE)
        valid == validate_block(block_info, s.transactions)
    IN IF read = None
       THEN [signer |-> s, request |-> request, valid |-> TRUE]
       ELSE [signer |-> [s EXCEPT !.blocks =
                            Insert(@, hash,
                                   [block_info EXCEPT !.valid = valid,
                                                      !.vote = Some(hash)])],
             request |-> [request EXCEPT !.message = hash],
             valid |-> TRUE]

\* RunLoop::validate_nonce_request: the signer and the request it leaves, and
\* whether the request is valid.
validate_nonce_request(s, request) ==
    LET read == read_next(request.message)
        block == read.some
        hash == signature_hash(block)
        block_info == IF hash \in DOMAIN s.blocks THEN s.blocks[hash]
                      ELSE BlockInfo(block, None, FALSE)
        valid == validate_block(block_info, s.transactions)
        hash_bytes == IF valid THEN hash ELSE Append(hash, "n")
    IN IF read = None
       THEN [signer |-> s, request |-> request, valid |-> TRUE]
       ELSE [signer |-> [s EXCEPT !.blocks =
                            Insert(@, hash,
                                   [block_info EXCEPT !.valid = valid,
                                                      !.vote = Some(hash_bytes)])],
             request |-> [request EXCEPT !.message = hash_bytes],
             valid |-> TRUE]

\* The chunks of the .signers contract: a wsts packet, whose signature
\* verifies or not, or something else.
NonceRequest(message) == [type |-> "NonceRequest", message |-> message]

SignatureShareRequest(message) ==
    [type |-> "SignatureShareRequest", message |-> message]

Packet(msg, verifies) == [type |-> "Packet", msg |-> msg, verifies |-> verifies]

\* RunLoop::verify_chunk: the signer it leaves and the packet, if any.
verify_chunk(s, chunk) ==
    IF chunk.type # "Packet" \/ ~chunk.verifies
    THEN [signer |-> s, packet |-> None]
    ELSE IF chunk.msg.type = "SignatureShareRequest"
    THEN LET v == validate_signature_share_request(s, chunk.msg)
         IN [signer |-> s,
             packet |-> IF v.valid THEN [chunk EXCEPT !.msg = v.request]
                        ELSE None]
    ELSE IF chunk.msg.type = "NonceRequest"
    THEN LET v == validate_nonce_request(s, chunk.msg)
         IN [signer |-> v.signer,
             packet |-> IF v.valid THEN [chunk EXCEPT !.msg = v.request]
                        ELSE None]
    ELSE [signer |-> s, packet |-> chunk]

\* The filter_map of verify_chunk over the chunks: the signer it leaves and
\* the inbound messages.
RECURSIVE VerifyChunks(_, _)
VerifyChunks(s, modified_slots) ==
    IF modified_slots = <<>> THEN [signer |-> s, inbound_messages |-> <<>>]
    ELSE LET v == verify_chunk(s, Head(modified_slots))
             rest == VerifyChunks(v.signer, Tail(modified_slots))
         IN [signer |-> rest.signer,
             inbound_messages |->
                 (IF v.packet = None THEN <<>> ELSE <<v.packet>>)
                 \o rest.inbound_messages]

\* OperationResult
DkgResult == [type |-> "Dkg"]

SignResult(verifies) == [type |-> "Sign", verifies |-> verifies]

SignError == [type |-> "SignError"]

\* What Coordinator::process_inbound_messages can return and leave: up to
\* MaxResults operation results, a Sign result being a signature that
\* verifies against the aggregate key and the coordinator's message or not;
\* the aggregate key after a Dkg result; and for its message the one it had
\* or the one of a nonce request among the inbound messages.
RECURSIVE ResultSeqs(_)
ResultSeqs(n) ==
    IF n = 0 THEN {<<>>}
    ELSE ResultSeqs(n - 1)
         \cup {Append(results, r) :
                 results \in {q \in ResultSeqs(n - 1) : Len(q) = n - 1},
                 r \in {DkgResult, SignResult(TRUE), SignResult(FALSE),
                        SignError}}

CoordinatorOutcomes(s, inbound_messages) ==
    {[operation_results |-> results,
      coordinator |->
          [aggregate_public_key |->
               IF \E i \in DOMAIN results : results[i] = DkgResult
               THEN Some("key") ELSE s.coordinator.aggregate_public_key,
           message |-> message]] :
        results \in ResultSeqs(MaxResults),
        message \in {s.coordinator.message}
                    \cup {inbound_messages[i].msg.message :
                            i \in {j \in DOMAIN inbound_messages :
                                     inbound_messages[j].msg.type = "NonceRequest"}}}

\* RunLoop::send_block_response_messages
RECURSIVE send_block_response_messages(_, _)
send_block_response_messages(s, operation_results) ==
    IF operation_results = <<>> \/ s.coordinator.aggregate_public_key = None
    THEN [signer |-> s, sent |-> <<>>]
    ELSE LET result == Head(operation_results)
             message == s.coordinator.message
             skip == \/ result.type # "Sign"
                     \/ ~result.verifies
                     \/ message \notin DOMAIN s.blocks
             block == s.blocks[message].block
             s1 == IF skip THEN s
                   ELSE [s EXCEPT !.blocks =
                            [k \in DOMAIN s.blocks \ {message} |-> s.blocks[k]]]
             block_submission ==
                 IF signature_hash(block) = message THEN Accepted(block)
                 ELSE Rejected(block, "SignedRejection")
             rest == send_block_response_messages(s1, Tail(operation_results))
         IN [signer |-> rest.signer,
             sent |-> (IF skip THEN <<>> ELSE <<block_submission>>) \o rest.sent]

\* RunLoop::send_operation_results
send_operation_results(s, operation_results) ==
    IF Len(operation_results) > 0
    THEN [s EXCEPT !.state = "Idle",
                   !.in_flight = IF @ > 0 THEN @ - 1 ELSE 0]
    ELSE s

\* RunLoop::handle_stackerdb_chunk_event_signers
handle_stackerdb_chunk_event_signers(s, modified_slots) ==
    LET verified == VerifyChunks(s, modified_slots)
    IN {LET s1 == [verified.signer EXCEPT !.coordinator = outcome.coordinator]
            responded == send_block_response_messages(s1, outcome.operation_results)
        IN [Handled(send_operation_results(responded.signer,
                                           outcome.operation_results),
                    responded.sent, <<>>, outcome.operation_results)
                EXCEPT !.inbound = verified.inbound_messages] :
          outcome \in CoordinatorOutcomes(verified.signer,
                                          verified.inbound_messages)}

\* SignerEvent
BlockProposal(type, block) ==
    [event |-> "BlockProposal", type |-> type, block |-> block]

StackerDB(contract_id, modified_slots) ==
    [event |-> "StackerDB", contract_id |-> contract_id,
     modified_slots |-> modified_slots]

\* The match on the event of run_one_pass.
HandleEvent(s, event) ==
    IF event = None THEN {Handled(s, <<>>, <<>>, <<>>)}
    ELSE IF event.event = "BlockProposal"
    THEN {handle_block_validate_response(s, event)}
    ELSE IF event.contract_id = "signers"
    THEN handle_stackerdb_chunk_event_signers(s, event.modified_slots)
    ELSE IF event.contract_id = "miners"
    THEN {handle_stackerdb_chunk_event_miners(s, event.modified_slots)}
    ELSE {Handled(s, <<>>, <<>>, <<>>)}

\* The commands the host passes.
CommandInputs == {Dkg, Sign(<<"x">>, FALSE, None)}

\* The chunks of the events: of the miners a block proposal or something
\* else; of the signers a nonce request for a block or for other bytes, a
\* signature share request for a hash, a vote or other bytes, another
\* packet, or something that is no packet.
MinerChunks == {serialize_to_vec(block) : block \in SignerBlocks} \cup {<<"x">>}

SignerChunks ==
    {[type |-> "Other"], Packet([type |-> "DkgBegin"], TRUE)}
    \cup {Packet(NonceRequest(message), verifies) :
            message \in {serialize_to_vec(block) : block \in SignerBlocks}
                        \cup {<<"x">>},
            verifies \in BOOLEAN}
    \cup {Packet(SignatureShareRequest(message), TRUE) :
            message \in {signature_hash(block) : block \in SignerBlocks}
                        \cup {Append(signature_hash("b1"), "n"), <<"x">>}}

\* The sequences of up to n of the chunks.
RECURSIVE ChunkSeqs(_, _)
ChunkSeqs(chunks, n) ==
    IF n = 0 THEN {<<>>}
    ELSE ChunkSeqs(chunks, n - 1)
         \cup {Append(slots, chunk) :
                 slots \in {q \in ChunkSeqs(chunks, n - 1) : Len(q) = n - 1},
                 chunk \in chunks}

EventInputs ==
    {BlockProposal(type, block) :
        type \in {"Ok", "Reject"}, block \in SignerBlocks}
    \cup {StackerDB("other", <<>>)}
    \cup {StackerDB("miners", slots) : slots \in ChunkSeqs(MinerChunks, MaxChunks)}
    \cup {StackerDB("signers", slots) : slots \in ChunkSeqs(SignerChunks, MaxChunks)}

\* The variables of the downloader and of the event receiver.
SignerFrame ==
    <<now, config, priority_queue, initial_batch, ongoing_batch,
      reliability_reports, atlasdb, sync_peers, next_event_id, next_bid,
      enqueues, faults, evictions, processed, receiver>>

SignerInit ==
    /\ now = 0
    /\ config = [max_attachment_retry_count |-> MaxRetryConfig,
                 max_inflight_attachments |-> 1]
    /\ priority_queue = {}
    /\ initial_batch = {}
    /\ ongoing_batch = None
    /\ reliability_reports = << >>
    /\ atlasdb = EmptyStore({})
    /\ sync_peers = {}
    /\ next_event_id = 0
    /\ next_bid = 1
    /\ enqueues = 0
    /\ faults = 0
    /\ evictions = 0
    /\ processed = << >>
    /\ last_call = NoCall
    /\ signer \in {RunLoop_from(signer_id, transactions) :
                     signer_id \in {0, 1},
                     transactions \in {{}, {ExpectedTxid}}}
    /\ receiver = None

\* The signer once the host has passed cmd and event, with a command passed
\* to an uninitialized signer left out of the queue.
Passed_to_initialized(cmd, event) ==
    LET s == [signer EXCEPT
                !.given = IF cmd = None THEN @ ELSE @ + 1,
                !.events = IF event = None THEN @ ELSE @ + 1]
    IN IF cmd = None \/ signer.state = "Uninitialized" THEN s
       ELSE push_back(s, cmd, "cmd")

\* The signer once the host has passed cmd and event: the command is pushed
\* to the back of the queue.
Passed(cmd, event) ==
    LET s == [signer EXCEPT
                !.given = IF cmd = None THEN @ ELSE @ + 1,
                !.events = IF event = None THEN @ ELSE @ + 1]
    IN IF cmd = None THEN s ELSE push_back(s, cmd, "cmd")

\* What the host can pass: a command or none, an event or none.
PassInputs ==
    {input \in [cmd : {None} \cup CommandInputs, event : {None} \cup EventInputs] :
        /\ input.cmd # None => signer.given < MaxCommands
        /\ input.event # None => signer.events < MaxSignerEvents}

\* One run_one_pass call that returns or, where no attempt to start the
\* dequeued command succeeds, never does.  found is what
\* get_aggregate_public_key returns to initialize, at once or after retries.
RunOnePass ==
    /\ signer.halted = "no"
    /\ \E input \in PassInputs :
       \E found \in {None, Some("key")} :
          LET s0 == Passed(input.cmd, input.event)
              s1 == IF s0.state = "Uninitialized" THEN initialize(s0, found) ELSE s0
          IN /\ found # None => s0.state = "Uninitialized"
             /\ \E handled \in HandleEvent(s1, input.event) :
                \E starts \in BOOLEAN :
                   LET next == process_next_command(handled.signer, starts)
                   IN /\ ~starts => next.dequeued # <<>>
                      /\ signer' = next.signer
                      /\ last_call' = [call |-> "run_one_pass",
                                       cmd |-> input.cmd,
                                       event |-> input.event,
                                       before |-> signer,
                                       initialized |-> s1,
                                       at_commands |-> handled.signer,
                                       sent |-> handled.sent,
                                       submitted |-> handled.submitted,
                                       results |-> handled.results,
                                       inbound |-> handled.inbound,
                                       dequeued |-> next.dequeued,
                                       returned |-> starts]
    /\ UNCHANGED SignerFrame

\* One run_one_pass call of an uninitialized signer whose node does not
\* answer before the retries time out: the call panics.
RunOnePassPanics ==
    /\ signer.halted = "no"
    /\ signer.state = "Uninitialized"
    /\ \E input \in PassInputs :
          /\ signer' = [Passed(input.cmd, input.event) EXCEPT !.halted = "panicked"]
          /\ last_call' = [call |-> "run_one_pass_panic", cmd |-> input.cmd,
                           event |-> input.event, before |-> signer]
    /\ UNCHANGED SignerFrame

SignerNext == RunOnePass \/ RunOnePassPanics

SpecSigner == SignerInit /\ [][SignerNext]_vars


(***************************************************************************)
(* The signer with blocks in its cache: an initialized signer that knows   *)
(* the aggregate public key, is idle with an empty queue, and whose cache  *)
(* and coordinator message are any of those that earlier events leave.     *)
(* An entry of the cache has no vote (the miners proposed the block), the  *)
(* vote yes or the vote no (a nonce request came), and is valid or not     *)
(* (the last validation response of the node, or the last nonce request);  *)
(* the vote yes needs a block without the transactions the signer expects. *)
(* The coordinator's message is empty, a vote of a nonce request or other  *)
(* bytes.  The host passes MaxProbeCommands more commands and              *)
(* MaxProbeEvents more events.                                             *)
(***************************************************************************)
\* The votes validate_nonce_request can have cached for the block.
ProbeVotes(block, transactions) ==
    {Append(signature_hash(block), "n")}
    \cup (IF transactions \cap BlockTxids(block) = {}
          THEN {signature_hash(block)} ELSE {})

\* The entries the cache can hold for the block: it is valid, or was voted
\* for, only once the node has answered Ok.
ProbeInfos(block, transactions) ==
    UNION {{[BlockInfo(block, vote, valid) EXCEPT !.validated = validated] :
              validated \in {v \in BOOLEAN :
                                /\ valid => v
                                /\ vote = Some(signature_hash(block)) => v}} :
           vote \in {None} \cup {Some(v) : v \in ProbeVotes(block, transactions)},
           valid \in BOOLEAN}

ProbeCaches(transactions) ==
    UNION {{[hash \in {signature_hash(block) : block \in cached} |->
                infos[CHOOSE block \in cached : signature_hash(block) = hash]] :
              infos \in {f \in [cached -> UNION {ProbeInfos(block, transactions) :
                                                    block \in cached}] :
                           \A block \in cached :
                               f[block] \in ProbeInfos(block, transactions)}} :
           cached \in SUBSET SignerBlocks}

ProbeMessages(transactions) ==
    {<<>>, <<"x">>}
    \cup UNION {ProbeVotes(block, transactions) : block \in SignerBlocks}

ProbeSigners ==
    UNION {{[RunLoop_from(signer_id, transactions) EXCEPT
               !.state = "Idle",
               !.coordinator = [aggregate_public_key |-> Some("key"),
                                message |-> message],
               !.blocks = blocks,
               !.given = MaxCommands - MaxProbeCommands,
               !.events = MaxSignerEvents - MaxProbeEvents] :
             signer_id \in {0, 1},
             blocks \in ProbeCaches(transactions),
             message \in ProbeMessages(transactions)} :
           transactions \in {{}, {ExpectedTxid}}}

CacheInit ==
    /\ now = 0
    /\ config = [max_attachment_retry_count |-> MaxRetryConfig,
                 max_inflight_attachments |-> 1]
    /\ priority_queue = {}
    /\ initial_batch = {}
    /\ ongoing_batch = None
    /\ reliability_reports = << >>
    /\ atlasdb = EmptyStore({})
    /\ sync_peers = {}
    /\ next_event_id = 0
    /\ next_bid = 1
    /\ enqueues = 0
    /\ faults = 0
    /\ evictions = 0
    /\ processed = << >>
    /\ last_call = NoCall
    /\ signer \in ProbeSigners
    /\ receiver = None

CacheNext == RunOnePass

SpecSignerCache == CacheInit /\ [][CacheNext]_vars

(***************************************************************************)
(* The event receiver (libsigner/src/events.rs).  `receiver` is the        *)
(* SignerEventReceiver with its two threads: the one that runs main_loop,  *)
(* at pc, and the one that holds the stop signaler, at signaler.  The HTTP *)
(* server is the queue of the requests that arrived and were not received  *)
(* yet; an out channel is the sequence of the events sent into it, and is  *)
(* connected until its consumer hangs up.  A step of a thread is one       *)
(* access to what the threads share: the stop signal, the server's queue,  *)
(* the channels.  History fields: next_id numbers the requests in the      *)
(* order of arrival, posted counts those of the node, obtained lists the   *)
(* requests recv returned with the value the stop signal had then, handled *)
(* lists what next_event answered and returned for them, faults counts the *)
(* failures of the server, woken tells that the wake-up request of the     *)
(* signaler arrived, exit_at names the request main_loop ended on.         *)
(***************************************************************************)
\* An HTTP request and its body: unreadable, bytes that do not decode, a
\* StackerDBChunksEvent, a BlockValidateResponse or text.
HttpRequest(method, url, body) == [method |-> method, url |-> url, body |-> body]

Body(kind, event) == [kind |-> kind, event |-> event]

\* serde_json::from_slice to the type of the kind.
from_slice(body, kind) == IF body.kind = kind THEN Some(body.event) ELSE None

\* next_event's answer to a request: the status of the response written, if
\* any, and the event or the error returned.
Answer(status, ok, result) == [status |-> status, ok |-> ok, result |-> result]

\* next_event that takes the chunks of every contract.
next_event_request_any_contract(contract_ids, request) ==
    IF request.method # "POST"
    THEN Answer(None, FALSE, "MalformedRequest")
    ELSE IF request.url = "/stackerdb_chunks"
    THEN IF request.body.kind = "unreadable"
         THEN Answer(Some(200), FALSE, "MalformedRequest")
         ELSE IF from_slice(request.body, "chunks") = None
         THEN Answer(None, FALSE, "Deserialize")
         ELSE Answer(Some(200), TRUE, from_slice(request.body, "chunks").some)
    ELSE IF request.url = "/proposal_response"
    THEN IF request.body.kind = "unreadable"
         THEN Answer(Some(200), FALSE, "MalformedRequest")
         ELSE IF from_slice(request.body, "response") = None
         THEN Answer(None, FALSE, "Deserialize")
         ELSE Answer(Some(200), TRUE, from_slice(request.body, "response").some)
    ELSE Answer(Some(200), FALSE, "UnrecognizedEvent")

\* SignerEventReceiver::next_event, from the method of the request on.
next_event_request(contract_ids, request) ==
    IF request.method # "POST"
    THEN Answer(None, FALSE, "MalformedRequest")
    ELSE IF request.url = "/stackerdb_chunks"
    THEN IF request.body.kind = "unreadable"
         THEN Answer(Some(200), FALSE, "MalformedRequest")
         ELSE IF from_slice(request.body, "chunks") = None
         THEN Answer(None, FALSE, "Deserialize")
         ELSE IF from_slice(request.body, "chunks").some.contract_id
                    \notin contract_ids
         THEN Answer(Some(200), FALSE, "UnrecognizedStackerDBContract")
         ELSE Answer(Some(200), TRUE, from_slice(request.body, "chunks").some)
    ELSE IF request.url = "/proposal_response"
    THEN IF request.body.kind = "unreadable"
         THEN Answer(Some(200), FALSE, "MalformedRequest")
         ELSE IF from_slice(request.body, "response") = None
         THEN Answer(None, FALSE, "Deserialize")
         ELSE Answer(Some(200), TRUE, from_slice(request.body, "response").some)
    ELSE Answer(Some(200), FALSE, "UnrecognizedEvent")

\* SignerEventReceiver::new, bind and add_consumer for each consumer.
SignerEventReceiver_new(contract_ids, consumers) ==
    [stackerdb_contract_ids |-> contract_ids,
     http_server |-> <<>>,
     out_channels |-> [i \in 1..consumers |-> [connected |-> TRUE, events |-> <<>>]],
     stop_signal |-> FALSE,
     pc |-> "main_loop",
     request |-> None,
     event |-> None,
     signaler |-> "ready",
     next_id |-> 1,
     posted |-> 0,
     obtained |-> <<>>,
     handled |-> <<>>,
     faults |-> 0,
     woken |-> FALSE,
     exit_at |-> None]

\* A stop signal that is never seen.
is_stopped_never(r) == FALSE

\* SignerEventReceiver::is_stopped
is_stopped(r) == r.stop_signal

\* next_event that does not look at the stop signal.
next_event_terminated_never(r) == FALSE

\* "were we asked to terminate?" of next_event
next_event_terminated(r) == is_stopped(r)

\* The arrival of a request at the server.
Arrived(r, request) ==
    [r EXCEPT !.http_server = Append(@, [id |-> r.next_id, request |-> request]),
              !.next_id = @ + 1]

\* SignerEventReceiver::forward_event: the channels it leaves and what it
\* returns.
RECURSIVE SendAll(_, _, _)
SendAll(out_channels, i, ev) ==
    IF i > Len(out_channels) THEN [out_channels |-> out_channels, ok |-> TRUE]
    ELSE IF ~out_channels[i].connected
    THEN [out_channels |-> out_channels, ok |-> FALSE]
    ELSE SendAll([out_channels EXCEPT ![i].events = Append(@, ev)], i + 1, ev)

forward_event(out_channels, ev) ==
    IF Len(out_channels) = 0 THEN [out_channels |-> out_channels, ok |-> FALSE]
    ELSE SendAll(out_channels, 1, ev)

\* The requests of the node.
NodeRequests ==
    {HttpRequest("GET", "/stackerdb_chunks", Body("text", None)),
     HttpRequest("POST", "/other", Body("text", None))}
    \cup {HttpRequest("POST", url, body) :
            url \in {"/stackerdb_chunks", "/proposal_response"},
            body \in {Body("unreadable", None),
                      Body("chunks", StackerDB("signers", <<>>)),
                      Body("chunks", StackerDB("other", <<>>)),
                      Body("response", BlockProposal("Ok", "b1"))}}

\* The variables of the downloader and of the signer.
ReceiverFrame ==
    <<now, config, priority_queue, initial_batch, ongoing_batch,
      reliability_reports, atlasdb, sync_peers, next_event_id, next_bid,
      enqueues, faults, evictions, processed, last_call, signer>>

EventsInit ==
    /\ now = 0
    /\ config = [max_attachment_retry_count |-> MaxRetryConfig,
                 max_inflight_attachments |-> 1]
    /\ priority_queue = {}
    /\ initial_batch = {}
    /\ ongoing_batch = None
    /\ reliability_reports = << >>
    /\ atlasdb = EmptyStore({})
    /\ sync_peers = {}
    /\ next_event_id = 0
    /\ next_bid = 1
    /\ enqueues = 0
    /\ faults = 0
    /\ evictions = 0
    /\ processed = << >>
    /\ last_call = NoCall
    /\ signer = None
    /\ receiver \in {SignerEventReceiver_new({"signers"}, consumers) :
                       consumers \in 0..MaxConsumers}

\* The node posts a request.
NodePosts ==
    /\ receiver.posted < MaxRequests
    /\ \E request \in NodeRequests :
          receiver' = [Arrived(receiver, request) EXCEPT !.posted = @ + 1]
    /\ UNCHANGED ReceiverFrame

\* A consumer drops its end of the channel.
ConsumerHangsUp ==
    /\ \E i \in DOMAIN receiver.out_channels :
          /\ receiver.out_channels[i].connected
          /\ receiver' = [receiver EXCEPT !.out_channels[i].connected = FALSE]
    /\ UNCHANGED ReceiverFrame

\* SignerStopSignaler::send: the store of the stop signal.
SendStore ==
    /\ receiver.signaler = "ready"
    /\ receiver' = [receiver EXCEPT !.stop_signal = TRUE, !.signaler = "stored"]
    /\ UNCHANGED ReceiverFrame

\* SignerStopSignaler::send: the wake-up request, where the connection
\* succeeds.
SendWakeUp ==
    /\ receiver.signaler = "stored"
    /\ receiver' = [Arrived(receiver,
                            HttpRequest("POST", "/shutdown", Body("text", None)))
                      EXCEPT !.signaler = "sent", !.woken = TRUE]
    /\ UNCHANGED ReceiverFrame

\* SignerStopSignaler::send where TcpStream::connect fails.
SendNoWakeUp ==
    /\ receiver.signaler = "stored"
    /\ receiver' = [receiver EXCEPT !.signaler = "sent"]
    /\ UNCHANGED ReceiverFrame

\* main_loop: the top of the loop.
MainLoop ==
    /\ receiver.pc = "main_loop"
    /\ receiver' = IF is_stopped(receiver)
                   THEN [receiver EXCEPT !.pc = "exited"]
                   ELSE [receiver EXCEPT !.pc = "recv"]
    /\ UNCHANGED ReceiverFrame

\* next_event: http_server.recv() returns the next request.
Recv ==
    /\ receiver.pc = "recv"
    /\ receiver.http_server # <<>>
    /\ receiver' = [receiver EXCEPT
                      !.http_server = Tail(@),
                      !.request = Some(Head(receiver.http_server)),
                      !.obtained = Append(@, [id |-> Head(receiver.http_server).id,
                                              stopped |-> receiver.stop_signal]),
                      !.pc = "terminated?"]
    /\ UNCHANGED ReceiverFrame

\* next_event: http_server.recv() returns an error, and main_loop goes on.
RecvFails ==
    /\ receiver.pc = "recv"
    /\ receiver.faults < MaxServerFaults
    /\ receiver' = [receiver EXCEPT !.faults = @ + 1, !.pc = "main_loop"]
    /\ UNCHANGED ReceiverFrame

\* next_event: the look at the stop signal; main_loop breaks on Terminated.
NextEventTerminated ==
    /\ receiver.pc = "terminated?"
    /\ receiver' =
          IF next_event_terminated(receiver)
          THEN [receiver EXCEPT
                  !.handled = Append(@, [id |-> receiver.request.some.id,
                                         request |-> receiver.request.some.request,
                                         status |-> None,
                                         result |-> "Terminated"]),
                  !.request = None,
                  !.exit_at = Some(receiver.request.some.id),
                  !.pc = "exited"]
          ELSE [receiver EXCEPT !.pc = "request"]
    /\ UNCHANGED ReceiverFrame

\* next_event: the rest of it, and the match of main_loop on what it
\* returns.
NextEvent ==
    /\ receiver.pc = "request"
    /\ LET got == receiver.request.some
           answer == next_event_request(receiver.stackerdb_contract_ids,
                                        got.request)
       IN receiver' = [receiver EXCEPT
                         !.handled = Append(@, [id |-> got.id,
                                                request |-> got.request,
                                                status |-> answer.status,
                                                result |-> IF answer.ok THEN "Ok"
                                                           ELSE answer.result]),
                         !.request = None,
                         !.event = IF answer.ok
                                   THEN Some([id |-> got.id, event |-> answer.result])
                                   ELSE None,
                         !.pc = IF answer.ok THEN "forward_event" ELSE "main_loop"]
    /\ UNCHANGED ReceiverFrame

\* next_event: the response cannot be written, and expect panics.
NextEventPanics ==
    /\ receiver.pc = "request"
    /\ receiver.faults < MaxServerFaults
    /\ next_event_request(receiver.stackerdb_contract_ids,
                          receiver.request.some.request).status # None
    /\ receiver' = [receiver EXCEPT !.faults = @ + 1,
                                    !.exit_at = Some(receiver.request.some.id),
                                    !.pc = "panicked"]
    /\ UNCHANGED ReceiverFrame

\* main_loop: forward_event, and the break where it fails.
ForwardEvent ==
    /\ receiver.pc = "forward_event"
    /\ LET forwarded == forward_event(receiver.out_channels, receiver.event.some)
       IN receiver' = [receiver EXCEPT
                         !.out_channels = forwarded.out_channels,
                         !.event = None,
                         !.exit_at = IF forwarded.ok THEN @
                                     ELSE Some(receiver.event.some.id),
                         !.pc = IF forwarded.ok THEN "main_loop" ELSE "exited"]
    /\ UNCHANGED ReceiverFrame

\* The steps of the thread of main_loop that do not wait for the server to
\* fail.
ReceiverRuns ==
    MainLoop \/ Recv \/ NextEventTerminated \/ NextEvent \/ ForwardEvent

EventsNext ==
    \/ NodePosts
    \/ ConsumerHangsUp
    \/ SendStore
    \/ SendWakeUp
    \/ SendNoWakeUp
    \/ MainLoop
    \/ Recv
    \/ RecvFails
    \/ NextEventTerminated
    \/ NextEvent
    \/ NextEventPanics
    \/ ForwardEvent

SpecEvents == EventsInit /\ [][EventsNext]_vars

\* The thread of main_loop is scheduled as long as it can run: it waits for
\* nothing but the server's next request.
SpecEventsFair == SpecEvents /\ WF_vars(ReceiverRuns)

(***************************************************************************)
(* The claims.                                                             *)
(***************************************************************************)
\* The last call was a pop_next_ready_batch that returned a batch.
Popped == last_call.call = "pop" /\ last_call.popped # None

\* C1: for any two batches A and B of the priority queue, A is popped before
\* B whenever A.retry_deadline < B.retry_deadline, whatever their numbers of
\* missing instances and block heights; with equal deadlines the batch with
\* more missing instances is popped first, and with those equal too the one
\* with the lower block_height.  Stated on every pop: the batch A popped and
\* every batch B left in the queue are in that order.
C1_PopOrder ==
    Popped =>
        \A B \in priority_queue :
            LET A == last_call.popped
            IN /\ A.retry_deadline <= B.retry_deadline
               /\ A.retry_deadline = B.retry_deadline =>
                     attachments_instances_count(A) >= attachments_instances_count(B)
               /\ (/\ A.retry_deadline = B.retry_deadline
                   /\ attachments_instances_count(A) = attachments_instances_count(B))
                     => A.block_height <= B.block_height

\* A batch was popped before one of a later deadline that has more missing
\* instances, and before one of the same deadline and number of missing
\* instances in a higher block.
C1_Witness ==
    /\ Popped
    /\ \E B \in priority_queue :
          /\ last_call.popped.retry_deadline < B.retry_deadline
          /\ attachments_instances_count(last_call.popped)
                < attachments_instances_count(B)
    /\ \E B \in priority_queue :
          /\ last_call.popped.retry_deadline = B.retry_deadline
          /\ attachments_instances_count(last_call.popped)
                = attachments_instances_count(B)
          /\ last_call.popped.block_height < B.block_height

\* C2: has_ready_batches() is true exactly when some queued batch has
\* retry_deadline strictly less than the current time;
\* pop_next_ready_batch() returns a batch only if that batch's deadline is
\* strictly less than the current time and it is then the queued batch with
\* the earliest deadline; when no queued batch has retry_deadline < now it
\* returns None and leaves the queue unchanged.
C2_ReadyAndPop ==
    last_call.call = "pop" =>
        LET ready == \E b \in last_call.before : b.retry_deadline < last_call.time
        IN /\ last_call.ready <=> ready
           /\ last_call.popped # None =>
                 /\ last_call.popped \in last_call.before
                 /\ last_call.popped.retry_deadline < last_call.time
                 /\ \A b \in last_call.before :
                       last_call.popped.retry_deadline <= b.retry_deadline
                 /\ priority_queue = last_call.before \ {last_call.popped}
           /\ ~ready =>
                 /\ last_call.popped = None
                 /\ priority_queue = last_call.before

\* Of two queued batches the one of the earlier deadline was ready and was
\* returned, the other was not ready.
C2_Witness ==
    /\ Popped
    /\ last_call.ready
    /\ \E b \in priority_queue : b.retry_deadline >= last_call.time

\* C4: bump_retry_count sets retry_deadline = now + delay with
\* delay = min(MAX_RETRY_DELAY, 2^retry_count + r mod 2^(retry_count-1)) on
\* the incremented retry_count, so that for every retry_count >= 0 before
\* the call and every random r: now + 2 <= retry_deadline <= now +
\* MAX_RETRY_DELAY.
C4_DeadlineRange ==
    last_call.call = "bump" =>
        /\ last_call.time + 2 <= last_call.after.retry_deadline
        /\ last_call.after.retry_deadline <= last_call.time + MAX_RETRY_DELAY

\* C4 for the retry counts whose increment is below 2^32: the range holds.
C4_DeadlineRangeBelowWrap ==
    (last_call.call = "bump" /\ last_call.after.retry_count.hi = 0) =>
        /\ last_call.time + 2 <= last_call.after.retry_deadline
        /\ last_call.after.retry_deadline <= last_call.time + MAX_RETRY_DELAY

\* The last call was the run() tick in which a batch reached Done.
DoneTick == last_call.call = "run" /\ last_call.done # None

\* That tick returned Ok: no storage call of it failed.
OkDoneTick == DoneTick /\ last_call.ret = "ok"

InQueue(bid) == \E b \in priority_queue : b.bid = bid

\* What C3 says of the batch handled at Done and of the processings counted.
RetryOrDrop ==
    LET before == last_call.done.batch
        after == last_call.done.final
        bumped == U64Inc(before.retry_count)
        retried == U64Lt(bumped, config.max_attachment_retry_count)
    IN IF Missing(after) # {}
       THEN /\ after.retry_count = bumped
            /\ retried => after \in priority_queue
            /\ ~retried => ~InQueue(before.bid)
       ELSE ~InQueue(before.bid)

ProcessedAtMost ==
    \A bid \in DOMAIN processed :
        processed[bid] <= Max(1, config.max_attachment_retry_count)

\* C3: when a batch reaches Done with at least one instance still missing,
\* its retry_count is incremented by exactly one and the batch is pushed back
\* on the priority queue if and only if the incremented retry_count is less
\* than max_attachment_retry_count, otherwise it is dropped; no batch is
\* processed by the state machine more than max(1, max_attachment_retry_count)
\* times; a batch that reaches Done with no missing instance is never pushed
\* back.
C3_RetryOrDrop == (DoneTick => RetryOrDrop) /\ ProcessedAtMost

\* C3 on the ticks that return Ok: there it holds.
C3_RetryOrDropWhenOk == (OkDoneTick => RetryOrDrop) /\ ProcessedAtMost

\* The batches the downloader holds.
Batches ==
    priority_queue
    \cup (IF ongoing_batch = None THEN {}
          ELSE {ongoing_batch.context.attachments_batch})

\* C5: over the whole life of a batch (creation, pops, failed attempts,
\* re-enqueues), with a non-decreasing clock, its retry_deadline never
\* decreases: every value assigned by a retry is greater than or equal to
\* the value it replaces.
C5_DeadlineNeverDecreases ==
    [][/\ \A b \in Batches : \A c \in Batches' :
             b.bid = c.bid => b.retry_deadline <= c.retry_deadline
       /\ (last_call'.call = "run" /\ last_call'.done # None) =>
             last_call'.done.batch.retry_deadline
                <= last_call'.done.final.retry_deadline]_vars

\* A batch that was retried once is retried again, and is given a later
\* deadline.
C5_Witness ==
    /\ DoneTick
    /\ last_call.done.batch.retry_count = U64(1)
    /\ last_call.done.final.retry_count = U64(2)
    /\ last_call.done.batch.retry_deadline < last_call.done.final.retry_deadline

\* The requests of the batch handled at Done that finished in `stage`.
FinishedIn(stage) ==
    {e \in DOMAIN last_call.done.history.finished :
        last_call.done.history.finished[e].stage = stage}

FinishedAs(types) ==
    {e \in DOMAIN last_call.done.history.finished :
        last_call.done.history.finished[e].type \in types}

\* The batch handled at Done is a fresh batch with three missing instances of
\* distinct hashes in the same block.
FreshBatchOfThree ==
    /\ last_call.done.batch.retry_count = U64(0)
    /\ Cardinality(Missing(last_call.done.batch)) = 3
    /\ Cardinality({t[3] : t \in Missing(last_call.done.batch)}) = 3

\* The scenario of C6 and C7: one batch with three missing instances of
\* distinct hashes, a single peer starting from an empty reliability report,
\* one inventory request and three attachment requests, all of which
\* succeed, and a Done tick that returns Ok.
AllSucceed ==
    /\ OkDoneTick
    /\ FreshBatchOfThree
    /\ DOMAIN last_call.done.peers = {"u1"}
    /\ last_call.done.history.peers["u1"] = ReliabilityReport_empty
    /\ Cardinality(FinishedIn("DownloadingAttachmentsInv")) = 1
    /\ Cardinality(FinishedIn("DownloadingAttachment")) = 3
    /\ FinishedIn("DownloadingAttachmentsInv") \subseteq FinishedAs({"GetAttachmentsInv"})
    /\ FinishedIn("DownloadingAttachment") \subseteq FinishedAs({"GetAttachment"})
    /\ {HashOf(a) : a \in last_call.done.attachments}
         = {t[3] : t \in Missing(last_call.done.batch)}

\* The report of the peer "u1" in the persistent reliability map.
ReportIs(sent, success, points) ==
    /\ "u1" \in DOMAIN reliability_reports
    /\ reliability_reports["u1"] = ReliabilityReport_new(sent, success)
    /\ score(reliability_reports["u1"]) = points

PairsOfDone ==
    /\ \A a \in last_call.done.attachments :
          /\ \A i \in find_all_attachment_instances(last_call.done.db, HashOf(a)) :
                Occurrences(last_call.resolved, <<i, a>>) = 1
          /\ a \in atlasdb.attachments
          /\ \A t \in Missing(last_call.done.final) : t[3] # HashOf(a)
    /\ \A k \in DOMAIN last_call.resolved :
          /\ last_call.resolved[k][1].content_hash = HashOf(last_call.resolved[k][2])
          /\ last_call.resolved[k][2] \in last_call.done.attachments
          /\ last_call.resolved[k][1] \in
                find_all_attachment_instances(last_call.done.db,
                                              HashOf(last_call.resolved[k][2]))
    /\ AllSucceed =>
          /\ Len(last_call.resolved) = 3
          /\ priority_queue = {}
          /\ ongoing_batch = None

\* C7: on the tick where a batch reaches Done, for every attachment a
\* downloaded in that batch the result of run() contains exactly one pair
\* (i, a) for each instance i that storage lists under hash(a), a is
\* persisted as an instantiated attachment, and afterwards the batch lists no
\* attachment index whose content hash equals hash(a); every returned pair
\* (i, a) satisfies i.content_hash = hash(a).  In the three-instance
\* single-peer all-success scenario this gives three pairs, an empty priority
\* queue and no ongoing batch.
C7_PairsOfDone == DoneTick => PairsOfDone

\* C7 on the ticks that return Ok: there it holds.
C7_PairsOfDoneWhenOk == OkDoneTick => PairsOfDone

\* The scenario of C8: a fresh batch with three missing instances, the peer
\* answers NotFound to every attachment request, and the Done tick returns
\* Ok.
AllNotFound ==
    /\ OkDoneTick
    /\ FreshBatchOfThree
    /\ Cardinality(FinishedIn("DownloadingAttachment")) = 3
    /\ FinishedIn("DownloadingAttachment") \subseteq FinishedAs({"NotFound"})

\* The batch handled at Done is back in the priority queue with
\* retry_count = 1, what was missing still missing and a retry_deadline
\* within [now + 2, now + 3].
BackInQueue ==
    \E b \in priority_queue :
        /\ b.bid = last_call.done.batch.bid
        /\ b.retry_count = U64(1)
        /\ Missing(b) = Missing(last_call.done.batch)
        /\ now + 2 <= b.retry_deadline
        /\ b.retry_deadline <= now + 3

C9_EveryFinishedRequestBumps ==
    DoneTick =>
        \A u \in DOMAIN last_call.done.peers :
            LET finished == last_call.done.history.finished
                mine == {e \in DOMAIN finished : finished[e].url = u}
                good == mine \cap FinishedAs({"GetAttachmentsInv", "GetAttachment"})
                before == last_call.done.history.peers[u]
                after == last_call.done.peers[u]
            IN /\ after.total_requests_sent
                    = before.total_requests_sent + Cardinality(mine)
               /\ after.total_requests_success
                    = before.total_requests_success + Cardinality(good)

\* What the code does: only the requests that got a response other than
\* NotFound bump the report.
C9_AnsweredRequestsBump ==
    DoneTick =>
        \A u \in DOMAIN last_call.done.peers :
            LET finished == last_call.done.history.finished
                mine == {e \in DOMAIN finished : finished[e].url = u}
                        \ FinishedAs({"failed", "NotFound"})
                good == mine \cap FinishedAs({"GetAttachmentsInv", "GetAttachment"})
                before == last_call.done.history.peers[u]
                after == last_call.done.peers[u]
            IN /\ after.total_requests_sent
                    = before.total_requests_sent + Cardinality(mine)
               /\ after.total_requests_success
                    = before.total_requests_success + Cardinality(good)

\* What C10 says of the event ids returned by the tick in which a batch
\* reaches Done.
FaultyEventsReturned ==
    /\ FinishedAs({"failed", "NotFound"}) \subseteq Range(last_call.events)
    /\ Range(last_call.events) \cap FinishedAs({"GetAttachmentsInv",
                                                "GetAttachment", "Other"}) = {}
    /\ Range(last_call.events) \subseteq DOMAIN last_call.done.history.finished

\* C10: every event id that a polling step marked faulty (connection failed,
\* or NotFound returned) during the inventory stage or the attachment stage
\* of a batch appears in the events_to_deregister list returned by the run()
\* call in which that batch reaches Done, and no event id of a request that
\* succeeded or is still pending appears there.
C10_FaultyEventsReturned == DoneTick => FaultyEventsReturned

\* C10 on the ticks that return Ok: there it holds.
C10_FaultyEventsReturnedWhenOk == OkDoneTick => FaultyEventsReturned


\* The calls of enqueue_new_attachments the last call made: the host's own,
\* or the one by which run() admits a non-empty initial batch.
LastAdmissions ==
    IF last_call.call = "enqueue" THEN {last_call.admission}
    ELSE IF last_call.call = "run"
              /\ last_call.admission.new_attachments # {}
         THEN {last_call.admission}
    ELSE {}

\* The places of the result of the admission ad that hold the instance i.
ReturnedAt(ad, i) == {k \in DOMAIN ad.resolved : ad.resolved[k][1] = i}

\* The batches pushed by the admission ad that track the instance i as
\* missing, in its block.
TrackedIn(ad, i) ==
    {b \in ad.pushed :
        /\ <<i.contract_id, i.attachment_index, i.content_hash>> \in Missing(b)
        /\ b.index_block_hash = i.index_block_hash
        /\ b.block_height = i.block_height}

\* The attachment paired with i is the one the claim names.
PairedAsStored(ad, i) ==
    \A k \in ReturnedAt(ad, i) :
        LET a == ad.resolved[k][2]
        IN IF i.content_hash = EmptyHash THEN a = Attachment_empty
           ELSE /\ HashOf(a) = i.content_hash
                /\ a \in ad.db.attachments \cup ad.db.inboxed
                /\ a \in atlasdb.attachments

\* Every instance is returned once and not tracked, or tracked once and not
\* returned; it is returned exactly when its hash is empty or storage held an
\* attachment of its hash; one batch is pushed per block of the instances
\* that are not returned.
ReturnedOrTracked(ad) ==
    /\ \A i \in ad.new_attachments :
          /\ \/ Cardinality(ReturnedAt(ad, i)) = 1 /\ TrackedIn(ad, i) = {}
             \/ ReturnedAt(ad, i) = {} /\ Cardinality(TrackedIn(ad, i)) = 1
          /\ PairedAsStored(ad, i)
          /\ ReturnedAt(ad, i) # {} <=>
                \/ i.content_hash = EmptyHash
                \/ find_attachment(ad.db, i.content_hash) # {}
                \/ find_uninstantiated_attachment(ad.db, i.content_hash) # {}
    /\ \A b \in ad.pushed : Missing(b) # {}
    /\ Cardinality(ad.pushed)
         = Cardinality({i.index_block_hash :
                           i \in {j \in ad.new_attachments : ReturnedAt(ad, j) = {}}})

Admittable ==
    UNION {scenario.initial_batch : scenario \in Scenarios}
    \cup UNION NewAttachments

\* C12: in every reachable state, every batch in the priority queue (and the
\* ongoing batch) tracks only instances that were admitted with the batch's
\* own block_height and index_block_hash.
C12_OneBlockPerBatch ==
    \A b \in Batches : \A t \in Missing(b) :
        \E i \in Admittable :
            /\ <<i.contract_id, i.attachment_index, i.content_hash>> = t
            /\ i.block_height = b.block_height
            /\ i.index_block_hash = b.index_block_hash

\* The batches of two blocks are held, one ongoing and one queued, each with
\* a missing instance.
C12_Witness ==
    /\ ongoing_batch # None
    /\ \E b \in priority_queue :
          /\ b.index_block_hash
               # ongoing_batch.context.attachments_batch.index_block_hash
          /\ Missing(b) # {}
          /\ Missing(ongoing_batch.context.attachments_batch) # {}

\* The persisted instances whose content hash is not the empty hash.
PersistedWithHash == {x \in atlasdb.instances : x.instance.content_hash # EmptyHash}

Instantiated(x) == find_attachment(atlasdb, x.instance.content_hash) # {}

Uninstantiated(x) ==
    find_uninstantiated_attachment(atlasdb, x.instance.content_hash) # {}

NoPeerCall ==
    /\ last_call'.call = "run"
    /\ last_call'.ret = "ok"
    /\ ongoing_batch = None
    /\ ongoing_batch' = None
    /\ has_ready_batches(priority_queue, now')

\* It returns empty lists and leaves the priority queue, with the retry
\* counts and deadlines of its batches, and the reliability reports.
NothingDone ==
    /\ last_call'.resolved = <<>>
    /\ last_call'.events = <<>>
    /\ priority_queue' = priority_queue
    /\ reliability_reports' = reliability_reports

\* C14: when run() is called with no ongoing batch, a ready batch in the
\* priority queue, and no outbound sync peer that has a data URL, it returns
\* empty lists and leaves the priority queue, the (absent) ongoing batch, the
\* batch's retry_count and retry_deadline, and the persistent reliability
\* reports unchanged.
C14_NoPeerNoChange == [][NoPeerCall => NothingDone]_vars

\* C14 amended: so it is when the initial batch is empty (it has been
\* admitted by an earlier call); a call that still has an initial batch
\* admits it first, which pushes its batches on the priority queue.
C14_NoPeerNoChangeOnceAdmitted ==
    [][(NoPeerCall /\ initial_batch = {}) => NothingDone]_vars

\* Such a call has been made, with a ready batch left in the queue and no
\* initial batch to admit.
C14_Witness ==
    /\ last_call.call = "run"
    /\ last_call.ret = "ok"
    /\ last_call.admission.new_attachments = {}
    /\ last_call.popped = None
    /\ last_call.done = None
    /\ ongoing_batch = None
    /\ has_ready_batches(priority_queue, now)

\* The last call was a bump of the report that returned.
Bumped ==
    /\ last_call.call \in {"bump_successful_requests", "bump_failed_requests"}
    /\ ~last_call.panicked

\* C15: every ReliabilityReport reachable from an empty report by any
\* sequence of bump_successful_requests and bump_failed_requests, and
\* therefore every report in the downloader's persistent reliability map
\* after any sequence of run() ticks, satisfies
\* total_requests_success <= total_requests_sent.
C15_SuccessAtMostSent ==
    \A u \in DOMAIN reliability_reports :
        ~U32Lt(reliability_reports[u].total_requests_sent,
               reliability_reports[u].total_requests_success)

\* C15 while total_requests_sent has not reached u32::MAX: there it holds.
C15_SuccessAtMostSentBelowWrap ==
    (Bumped /\ last_call.before.total_requests_sent # -1) =>
        ~U32Lt(last_call.after.total_requests_sent,
               last_call.after.total_requests_success)

\* score() returns for the reports before and after the bump, in a build
\* with overflow checks as in one without, and does not decrease, and
\* increases if the bump is a success.
ScoreGrows ==
    /\ ~score_panics(last_call.before) /\ ~score_overflows(last_call.before)
    /\ ~score_panics(last_call.after) /\ ~score_overflows(last_call.after)
    /\ ~U32Lt(score(last_call.after), score(last_call.before))
    /\ last_call.call = "bump_successful_requests" =>
          U32Lt(score(last_call.before), score(last_call.after))

\* C16: for every report with success <= sent (within bounds where
\* success*1000 does not overflow u32), score() does not decrease after
\* bump_successful_requests and does not decrease after
\* bump_failed_requests, and it strictly increases after every
\* bump_successful_requests.
C16_ScoreGrows ==
    (/\ Bumped
     /\ ~U32Lt(U32MaxTimes1000, last_call.before.total_requests_success)
     /\ ~U32Lt(U32MaxTimes1000, last_call.after.total_requests_success))
        => ScoreGrows

\* C16 amended: within bounds where sent*1000 does not overflow u32, after
\* the bump as before it.
C16_ScoreGrowsWhileSentFits ==
    (/\ Bumped
     /\ ~U32Lt(U32MaxTimes1000, last_call.before.total_requests_sent)
     /\ ~U32Lt(U32MaxTimes1000, last_call.after.total_requests_sent))
        => ScoreGrows

\* A failure after nothing but successes: the hit rate falls from 1 to 0 and
\* the count makes up for it.
C16_Witness ==
    /\ Bumped
    /\ last_call.call = "bump_failed_requests"
    /\ last_call.before.total_requests_sent = U32MaxTimes1000 - 1
    /\ last_call.before.total_requests_success = U32MaxTimes1000 - 1
    /\ score(last_call.after) = score(last_call.before)

\* The last call was a BeginRequests step that served x before y: it began
\* x, and y was left in the queue or begun after x.
ServedBefore(x, y) ==
    /\ last_call.call = "begin_requests"
    /\ {x, y} \subseteq last_call.queue
    /\ \E e \in DOMAIN last_call.remaining :
          /\ last_call.remaining[e] = x
          /\ \/ y \in last_call.rest
             \/ \E f \in DOMAIN last_call.remaining :
                   f > e /\ last_call.remaining[f] = y

NumSources(request) == Cardinality(DOMAIN request.sources)

BestScore(request) == score(request.sources[get_most_reliable_source(request)])

\* C17: among attachment requests in the request queue, a request with more
\* sources is served (popped) before one with fewer sources; among requests
\* with the same number of sources, the one whose most reliable source has
\* the higher score() is served first.
C17_MoreSourcesFirst ==
    \A x, y \in ongoing_batch.sub.queue \cup
                IF last_call.call = "begin_requests" THEN last_call.queue ELSE {} :
        ServedBefore(x, y) =>
            /\ NumSources(x) >= NumSources(y)
            /\ NumSources(x) = NumSources(y) =>
                  ~U32Lt(BestScore(x), BestScore(y))

\* C17 amended: a request with fewer sources is served before one with more
\* sources; among requests with the same number of sources, the one whose
\* most reliable source has the higher score() is served first.
C17_FewerSourcesFirst ==
    \A x, y \in ongoing_batch.sub.queue \cup
                IF last_call.call = "begin_requests" THEN last_call.queue ELSE {} :
        ServedBefore(x, y) =>
            /\ NumSources(x) <= NumSources(y)
            /\ NumSources(x) = NumSources(y) =>
                  ~U32Lt(BestScore(x), BestScore(y))

\* One step began two requests, the one with one source before the one with
\* two, and another queue's step began the better of two requests with one
\* source each: a request with fewer sources and a lower score was served
\* first.
C17_Witness ==
    \E x, y \in IF last_call.call = "begin_requests" THEN last_call.queue ELSE {} :
        /\ ServedBefore(x, y)
        /\ NumSources(x) < NumSources(y)
        /\ U32Lt(BestScore(x), BestScore(y))
        /\ y \notin last_call.rest

\* C18: calling resolve_attachment(h) twice on a batch leaves the batch in
\* the same state as calling it once, for every batch and every hash h; and
\* resolve_attachment(h) removes exactly the tracked indexes whose content
\* hash is h and no others.
C18_ResolveIdempotentExact ==
    last_call.call = "resolve_attachment" =>
        LET before == last_call.before.attachments_instances
            after == last_call.after.attachments_instances
        IN /\ last_call.twice => last_call.after = last_call.before
           /\ DOMAIN after = DOMAIN before
           /\ \A c \in DOMAIN before :
                 /\ DOMAIN after[c] =
                       {i \in DOMAIN before[c] : before[c][i] # last_call.content_hash}
                 /\ \A i \in DOMAIN after[c] : after[c][i] = before[c][i]
           /\ last_call.after =
                 [last_call.before EXCEPT !.attachments_instances = after]

\* A second resolve_attachment(h) in a row, on a batch that tracked two
\* indexes of a contract under h and another index under another hash before
\* the first.
C18_Witness ==
    /\ last_call.call = "resolve_attachment"
    /\ last_call.twice
    /\ \E batch \in ProbeTrackedBatches :
       \E c \in DOMAIN batch.attachments_instances :
          /\ Cardinality({i \in DOMAIN batch.attachments_instances[c] :
                            batch.attachments_instances[c][i] = last_call.content_hash}) = 2
          /\ \E d \in DOMAIN batch.attachments_instances :
                \E i \in DOMAIN batch.attachments_instances[d] :
                    batch.attachments_instances[d][i] # last_call.content_hash
          /\ resolve_attachment(batch, last_call.content_hash) = last_call.after

\* The last call was a run_one_pass that got as far as process_next_command.
Pass == last_call.call = "run_one_pass"

\* A round is under way for the run loop.
InRound(s) == s.state \in {"Dkg", "Sign"}

\* C19: the signer run-loop starts a DKG or signing round only when its
\* state is Idle: while the state is Dkg or Sign, any command passed to
\* run_one_pass is appended to the command queue and no command is dequeued
\* or started, so at most one round is in flight at any time, and each
\* run_one_pass dequeues at most one command.
C19_OneRoundInFlight ==
    Pass =>
        /\ Len(last_call.dequeued) <= 1
        /\ Len(signer.started) <= Len(last_call.before.started) + 1
        /\ signer.started # last_call.before.started =>
              /\ last_call.at_commands.state = "Idle"
              /\ last_call.dequeued = <<signer.started[Len(signer.started)]>>
        /\ last_call.dequeued # <<>> => last_call.at_commands.state = "Idle"
        /\ InRound(last_call.at_commands) =>
              /\ signer = last_call.at_commands
              /\ last_call.cmd # None =>
                    \E i \in DOMAIN signer.commands :
                        /\ signer.commands[i].command = last_call.cmd
                        /\ signer.commands[i].id = last_call.before.next_id
                        /\ SubSeq(signer.commands, 1, i - 1) =
                              last_call.before.commands
        /\ signer.in_flight <= 1
        /\ InRound(signer) <=> signer.in_flight = 1

\* A pass of a signer in a round got a command and an event that did not end
\* the round, with a command queued already: it queued the command behind it.
C19_Witness ==
    /\ Pass
    /\ InRound(last_call.before)
    /\ InRound(signer)
    /\ last_call.cmd # None
    /\ last_call.event # None
    /\ Len(signer.commands) = 2
    /\ signer.commands[2].command = last_call.cmd

\* Of the commands in `entries`: each command started was added to the
\* queue before the commands started after it and before the commands still
\* queued.
StartedInOrderOfAddition(entries) ==
    /\ \A i, j \in DOMAIN signer.started :
          (i < j /\ {signer.started[i], signer.started[j]} \subseteq entries) =>
              signer.started[i].id < signer.started[j].id
    /\ \A i \in DOMAIN signer.started : \A j \in DOMAIN signer.commands :
          {signer.started[i], signer.commands[j]} \subseteq entries =>
              signer.started[i].id < signer.commands[j].id

\* The commands ever added to the queue, as entries.
Entries == Range(signer.started) \cup Range(signer.commands)

\* C20: the signer executes commands in first-in first-out order: over any
\* sequence of run_one_pass calls, commands are started in the order in
\* which they were added to the signer's queue, and no command is started
\* before one that was queued earlier.
C20_Fifo ==
    signer # None => StartedInOrderOfAddition(Entries)

\* C20 amended: the commands that run_one_pass and the block proposals add
\* are started in the order in which they were added, none before one of
\* them that was queued earlier; the Dkg command that initialize puts at the
\* front of the queue is started before every other command.
C20_FifoBehindInitialDkg ==
    signer # None =>
        /\ StartedInOrderOfAddition({e \in Entries : e.by # "initialize"})
        /\ \A i \in DOMAIN signer.started :
              signer.started[i].by = "initialize" => i = 1
        /\ \A i \in DOMAIN signer.commands :
              signer.commands[i].by = "initialize" =>
                  i = 1 /\ signer.started = <<>>

\* Three commands started: the Dkg command of initialize before a command
\* queued earlier, and then two commands in the order they were added.
C20_Witness ==
    /\ signer # None
    /\ Len(signer.started) = 3
    /\ signer.started[1].by = "initialize"
    /\ signer.started[2].id < signer.started[1].id
    /\ signer.started[2].id < signer.started[3].id
    /\ signer.started[2].by = "cmd"
    /\ signer.started[3].by = "cmd"

\* The last call was a run_one_pass with a BlockProposal event of the type.
ProposalPass(type) ==
    /\ Pass
    /\ last_call.event # None
    /\ last_call.event.event = "BlockProposal"
    /\ last_call.event.type = type

\* The Sign commands for the block in the queue.
SignsFor(commands, block) ==
    {i \in DOMAIN commands :
        commands[i].command = Sign(serialize_to_vec(block), FALSE, None)}

\* C21: handling a BlockProposal event whose response is Ok, when this
\* signer is the coordinator, appends exactly one Sign command for that
\* block to the command queue; when this signer is not the coordinator it
\* appends none.
C21_OkQueuesOneSign ==
    ProposalPass("Ok") =>
        LET before == last_call.initialized
            after == last_call.at_commands
        IN after.commands =
              before.commands
              \o (IF before.signer_id = calculate_coordinator
                  THEN <<Queued(Sign(serialize_to_vec(last_call.event.block),
                                     FALSE, None),
                                before.next_id, "block_proposal")>>
                  ELSE <<>>)

\* The coordinator, with a Sign command for the block queued already, was
\* told once more that the block is valid: a second Sign command for it is
\* behind the first.
C21_Witness ==
    /\ ProposalPass("Ok")
    /\ last_call.initialized.signer_id = calculate_coordinator
    /\ Cardinality(SignsFor(last_call.initialized.commands,
                            last_call.event.block)) = 1
    /\ Cardinality(SignsFor(last_call.at_commands.commands,
                            last_call.event.block)) = 2

\* C22: handling a BlockProposal event whose response is Reject sends
\* exactly one rejection message to the stacker DB, appends no Sign command
\* to the command queue, and sets valid = false on the cached BlockInfo of
\* that block.
C22_RejectSendsOneRejection ==
    ProposalPass("Reject") =>
        LET before == last_call.initialized
            after == last_call.at_commands
            hash == signature_hash(last_call.event.block)
        IN /\ Len(last_call.sent) = 1
           /\ last_call.sent[1].type = "Rejected"
           /\ last_call.sent[1].block = last_call.event.block
           /\ after.commands = before.commands
           /\ DOMAIN after.blocks = DOMAIN before.blocks
           /\ hash \in DOMAIN before.blocks => ~after.blocks[hash].valid

\* The node rejected a block that the cache held as valid, while a command
\* was waiting in the queue.
C22_Witness ==
    /\ ProposalPass("Reject")
    /\ LET hash == signature_hash(last_call.event.block)
       IN /\ hash \in DOMAIN last_call.initialized.blocks
          /\ last_call.initialized.blocks[hash].valid
          /\ ~last_call.at_commands.blocks[hash].valid
    /\ last_call.initialized.commands # <<>>
    /\ Len(last_call.sent) = 1

\* The last call was a run_one_pass with a chunk event of the .signers
\* contract whose one chunk is a wsts packet of the type, with a signature
\* that verifies.
PacketPass(type) ==
    /\ Pass
    /\ last_call.event # None
    /\ last_call.event.event = "StackerDB"
    /\ last_call.event.contract_id = "signers"
    /\ Len(last_call.event.modified_slots) = 1
    /\ last_call.event.modified_slots[1].type = "Packet"
    /\ last_call.event.modified_slots[1].verifies
    /\ last_call.event.modified_slots[1].msg.type = type

\* The message of the packet as it arrived.
PacketMessage == last_call.event.modified_slots[1].msg.message

\* The block in the cache as verify_chunk left it.
Verified(hash) ==
    validate_nonce_request(last_call.initialized,
                           last_call.event.modified_slots[1].msg).signer.blocks[hash]

\* C23: for a nonce request whose message decodes to a block with signature
\* hash h, validate_nonce_request sets both the request's message and the
\* cached vote of that block to h followed by the byte 0x6e when the block is
\* invalid (validate_block false), and to exactly h when the block is valid.
C23_NonceRequestVote ==
    (PacketPass("NonceRequest") /\ read_next(PacketMessage) # None) =>
        LET block == read_next(PacketMessage).some
            h == signature_hash(block)
            before == last_call.initialized.blocks
            block_info == IF h \in DOMAIN before THEN before[h]
                          ELSE BlockInfo(block, None, FALSE)
            passes == /\ block_info.valid
                      /\ last_call.initialized.transactions
                             \cap BlockTxids(block) = {}
            vote == IF passes THEN h ELSE Append(h, "n")
        IN /\ Len(last_call.inbound) = 1
           /\ last_call.inbound[1].msg = NonceRequest(vote)
           /\ Verified(h).vote = Some(vote)
           /\ \/ h \notin DOMAIN last_call.at_commands.blocks
              \/ last_call.at_commands.blocks[h].vote = Some(vote)

\* A nonce request for a block that passes validation and that the signer
\* voted against before: the request goes on with the hash as its message
\* and the hash is the cached vote.
C23_Witness ==
    /\ PacketPass("NonceRequest")
    /\ read_next(PacketMessage) # None
    /\ LET h == signature_hash(read_next(PacketMessage).some)
       IN /\ h \in DOMAIN last_call.initialized.blocks
          /\ last_call.initialized.blocks[h].valid
          /\ last_call.initialized.blocks[h].vote = Some(Append(h, "n"))
          /\ last_call.inbound[1].msg.message = h
          /\ h \in DOMAIN last_call.at_commands.blocks
          /\ last_call.at_commands.blocks[h].vote = Some(h)

\* A vote is cached under the message of the packet.
VoteCached ==
    /\ PacketMessage \in DOMAIN last_call.initialized.blocks
    /\ last_call.initialized.blocks[PacketMessage].vote # None

C25_VoteImmutable ==
    Pass =>
        \A hash \in DOMAIN last_call.before.blocks \cap DOMAIN signer.blocks :
            last_call.before.blocks[hash].vote # None =>
                signer.blocks[hash].vote = last_call.before.blocks[hash].vote

\* The last call was a run_one_pass with a chunk event of the .signers
\* contract that ended a signing round with a signature that verifies
\* against the aggregate key and the coordinator's message.
SignedPass ==
    /\ Pass
    /\ last_call.event # None
    /\ last_call.event.event = "StackerDB"
    /\ last_call.event.contract_id = "signers"
    /\ last_call.results = <<SignResult(TRUE)>>
    /\ last_call.at_commands.coordinator.aggregate_public_key # None

\* The cache as the chunks of the event left it, before the results.
CacheAtResults ==
    VerifyChunks(last_call.initialized, last_call.event.modified_slots).signer.blocks

\* C26: for each Sign operation result that verifies against the aggregate
\* key and the coordinator's current message: if the message is the
\* signature hash of a cached block, BlockResponse::Accepted(block) is
\* broadcast; if the message is instead that block's rejection vote
\* (signature hash followed by 0x6e), a BlockRejection with code
\* SignedRejection is broadcast for the block.  In both cases the block's
\* entry is removed from the cache.
C26_SignResultResponse ==
    SignedPass =>
        \A hash \in DOMAIN CacheAtResults :
            LET message == last_call.at_commands.coordinator.message
                block == CacheAtResults[hash].block
            IN /\ message = hash =>
                     /\ last_call.sent = <<Accepted(block)>>
                     /\ hash \notin DOMAIN last_call.at_commands.blocks
               /\ message = Append(hash, "n") =>
                     /\ last_call.sent = <<Rejected(block, "SignedRejection")>>
                     /\ hash \notin DOMAIN last_call.at_commands.blocks

\* The last call was a run_one_pass, returning or not, that passed a command
\* to an uninitialized signer.
CommandToUninitialized ==
    /\ last_call.call \in {"run_one_pass", "run_one_pass_panic"}
    /\ last_call.before.state = "Uninitialized"
    /\ last_call.cmd # None

\* The command of the last call as run_one_pass queues it.
PassedCommand == Queued(last_call.cmd, last_call.before.next_id, "cmd")

Unrecognized(request) ==
    /\ request.method = "POST"
    /\ \/ request.url \notin {"/stackerdb_chunks", "/proposal_response"}
       \/ /\ request.url = "/stackerdb_chunks"
          /\ request.body.kind = "chunks"
          /\ request.body.event.contract_id \notin receiver.stackerdb_contract_ids

ReturnedOk(entry) == entry.result = "Ok"

\* The events next_event has returned, in the order of the requests.
EventsReturned ==
    LET entries == SelectSeq(receiver.handled, ReturnedOk)
    IN [i \in DOMAIN entries |->
           [id |-> entries[i].id, event |-> entries[i].request.body.event]]

IsPrefix(s, t) == Len(s) <= Len(t) /\ s = SubSeq(t, 1, Len(s))

StopSent == receiver.stop_signal /\ receiver.woken

\* main_loop is over: it broke out of the loop, or a panic unwound it.
MainLoopOver == receiver.pc \in {"exited", "panicked"}

\* C29: after send() has set the stop flag and the wake-up POST /shutdown
\* has been delivered, main_loop eventually exits.
C29_StopExits == StopSent ~> MainLoopOver

\* main_loop was waiting in recv when the signaler stopped it: it ended on
\* the wake-up request.
C29_Witness ==
    /\ StopSent
    /\ receiver.pc = "exited"
    /\ receiver.handled # <<>>
    /\ LET entry == receiver.handled[Len(receiver.handled)]
       IN /\ entry.request.url = "/shutdown"
          /\ entry.result = "Terminated"
          /\ receiver.exit_at = Some(entry.id)

\* The stop signal was set when recv returned the request.
ObtainedStopped(id) ==
    \E k \in DOMAIN receiver.obtained :
        receiver.obtained[k].id = id /\ receiver.obtained[k].stopped

\* C30: once the stop flag is set, no HTTP request obtained after the flag
\* was set is forwarded, under every interleaving of the signaler's thread
\* with main_loop: neither in a channel nor on its way to one.
C30_NothingForwardedAfterStop ==
    /\ \A c \in DOMAIN receiver.out_channels :
          \A j \in DOMAIN receiver.out_channels[c].events :
              ~ObtainedStopped(receiver.out_channels[c].events[j].id)
    /\ receiver.event # None => ~ObtainedStopped(receiver.event.some.id)

\* A chunk event of a listened contract that recv returned after the stop
\* signal was set, with a consumer connected: next_event returned
\* Terminated for it.
C30_Witness ==
    /\ receiver.handled # <<>>
    /\ LET entry == receiver.handled[Len(receiver.handled)]
       IN /\ ObtainedStopped(entry.id)
          /\ entry.request = HttpRequest("POST", "/stackerdb_chunks",
                                         Body("chunks", StackerDB("signers", <<>>)))
          /\ entry.result = "Terminated"
    /\ Len(receiver.out_channels) > 0
    /\ \A c \in DOMAIN receiver.out_channels : receiver.out_channels[c].connected
    /\ receiver.signaler = "stored"

\* The stages of the batch state machine, in their order.
StageNumber(state) ==
    CASE state = "Initialized" -> 0
      [] state = "DNSLookup" -> 1
      [] state = "DownloadingAttachmentsInv" -> 2
      [] state = "DownloadingAttachment" -> 3
      [] state = "Done" -> 4

\* What a step of the downloader does to the state machine of the ongoing
\* batch.  A machine is created at Initialized and proceeds in the same
\* run(); the machine that reaches Done is handled in the same run() and
\* leaves no ongoing batch.
StageStep ==
    LET before == ongoing_batch
        after == ongoing_batch'
    IN /\ (before # None /\ after # None) =>
             /\ after.context.attachments_batch.bid
                   = before.context.attachments_batch.bid
             /\ StageNumber(after.state) - StageNumber(before.state) \in {0, 1}
       /\ (before = None /\ after # None) =>
             StageNumber(after.state) = StageNumber("Initialized") + 1
       /\ (before # None /\ after = None) =>
             StageNumber(before.state) + 1 = StageNumber("Done")
       \* requests are begun in BeginRequests only, once the lookups are over
       /\ next_event_id' # next_event_id =>
             /\ before # None /\ after # None
             /\ before.state = after.state
             /\ before.state \in {"DownloadingAttachmentsInv", "DownloadingAttachment"}
             /\ before.sub.state = "BeginRequests"
             /\ before.history.inflight = {}
       \* the inventory stage starts with no request begun and no lookup in flight
       /\ (before # None /\ after # None /\ before.state = "DNSLookup"
           /\ after.state = "DownloadingAttachmentsInv") =>
             /\ before.sub.state = "Resolving"
             /\ after.history.inflight = {}
             /\ after.sub = BeginRequests(after.sub.queue, None)
       \* the attachment stage starts when every inventory request has finished
       /\ (before # None /\ after # None
           /\ before.state = "DownloadingAttachmentsInv"
           /\ after.state = "DownloadingAttachment") =>
             /\ before.sub.state = "PollRequests"
             /\ before.sub.queue = {}
             /\ DOMAIN before.sub.results.remaining
                   \subseteq DOMAIN after.history.finished
             /\ after.sub = BeginRequests(after.sub.queue, None)

\* C31: the batch state machine moves only forward along Initialized,
\* DNSLookup, DownloadingAttachmentsInv, DownloadingAttachment, Done: each
\* run() tick advances it by at most one stage and never to an earlier
\* stage; no inventory request is begun before every DNS lookup of the batch
\* has finished, and no attachment request is begun before every inventory
\* request of the batch has finished.
C31_StagesForward == [][StageStep]_vars

\* An attachment request is outstanding, the inventory request before it
\* has finished, and the lookup of a peer's domain name before that ended
\* without an address.
C31_Witness ==
    /\ ongoing_batch # None
    /\ ongoing_batch.state = "DownloadingAttachment"
    /\ ongoing_batch.sub.state = "PollRequests"
    /\ DOMAIN ongoing_batch.sub.results.remaining # {}
    /\ \E e \in DOMAIN ongoing_batch.history.finished :
          ongoing_batch.history.finished[e].stage = "DownloadingAttachmentsInv"
    /\ \E u \in DOMAIN ongoing_batch.context.dns_lookups :
          ongoing_batch.context.dns_lookups[u] = "None"

\* The request batcher of the ongoing batch, in a stage of requests.
Batcher ==
    /\ ongoing_batch # None
    /\ ongoing_batch.state \in {"DownloadingAttachmentsInv", "DownloadingAttachment"}

\* The outstanding requests of the batcher.
Outstanding ==
    IF ongoing_batch.sub.results = None THEN {}
    ELSE DOMAIN ongoing_batch.sub.results.remaining

\* C32: in every reachable state of the request batcher, the number of
\* outstanding requests (entries of remaining) is at most
\* max_inflight_attachments: a new group of requests is begun only after
\* every request of the previous group has finished.
C32_InflightBound ==
    Batcher =>
        /\ Cardinality(Outstanding) <= config.max_inflight_attachments
        /\ ongoing_batch.sub.state = "BeginRequests" => Outstanding = {}

\* As many requests are outstanding as may be, a request of the group before
\* them has finished, and another waits in the queue.
C32_Witness ==
    /\ Batcher
    /\ ongoing_batch.sub.state = "PollRequests"
    /\ Cardinality(Outstanding) = config.max_inflight_attachments
    /\ ongoing_batch.sub.queue # {}
    /\ DOMAIN ongoing_batch.history.finished # {}
\* C33: the batcher is Done only after a poll that found its queue empty and
\* left no request outstanding, and a poll that finds a request pending
\* leaves the batcher in PollRequests with that request outstanding; at Done
\* every request begun is recorded once: under succeeded when it got a
\* response other than NotFound, by its event id under faulty_peers when
\* the connection failed or the response was NotFound, never under both.
C33_DoneRecordsEachRequestOnce ==
    LET sub == ongoing_batch.sub
        begun == RequestsBegun
        finished == ongoing_batch.history.finished
    IN /\ last_call.call = "poll_requests"
          => /\ (\E e \in DOMAIN last_call.found :
                    last_call.found[e].type \in {"connecting", "waiting"})
                => /\ sub.state = "PollRequests"
                   /\ \A e \in DOMAIN last_call.found :
                         last_call.found[e].type \in {"connecting", "waiting"}
                         <=> e \in DOMAIN sub.results.remaining
             /\ sub.state = "Done"
                => /\ last_call.queue = {}
                   /\ sub.results.remaining = << >>
       /\ sub.state = "Done"
          => /\ last_call.call = "poll_requests"
             /\ DOMAIN finished = DOMAIN begun
             /\ DOMAIN sub.results.faulty_peers \subseteq DOMAIN begun
             /\ DOMAIN sub.results.succeeded \subseteq Range(begun)
             /\ \A e \in DOMAIN begun :
                   /\ e \in DOMAIN sub.results.faulty_peers
                      <=> finished[e].type \in {"failed", "NotFound"}
                   /\ begun[e] \in DOMAIN sub.results.succeeded
                      <=> finished[e].type \notin {"failed", "NotFound"}
                   /\ \A f \in DOMAIN begun : begun[f] = begun[e] => f = e
             /\ Cardinality(DOMAIN sub.results.faulty_peers)
                  + Cardinality(DOMAIN sub.results.succeeded)
                = Cardinality(DOMAIN begun)

\* Two groups of requests were begun and polled, one request answered
\* NotFound and one with another response, and the batcher is Done.
C33_Witness ==
    /\ ongoing_batch.sub.state = "Done"
    /\ Cardinality(DOMAIN RequestsBegun) = 2
    /\ Cardinality(DOMAIN last_call.found) = 1
    /\ \E e \in DOMAIN ongoing_batch.history.finished :
          ongoing_batch.history.finished[e].type = "NotFound"
    /\ ongoing_batch.sub.results.succeeded # << >>

\* The batch has just entered DownloadingAttachment: its batcher holds the
\* queue get_prioritized_attachments_requests built from the context.
QueueBuilt ==
    /\ ongoing_batch # None
    /\ ongoing_batch.state = "DownloadingAttachment"
    /\ ongoing_batch.sub.state = "BeginRequests"
    /\ ongoing_batch.sub.results = None

\* The peer u answered, under some inventory key, with bit 1 at the page
\* and position of an instance of the batch that misses the hash h.
ListedBy(context, u, h) ==
    LET m == context.attachments_batch.attachments_instances
    IN \E k \in DOMAIN context.inventories :
          /\ k[1] \in DOMAIN m
          /\ u \in DOMAIN context.inventories[k]
          /\ \E i \in DOMAIN m[k[1]] :
                /\ m[k[1]][i] = h
                /\ (i \div ATTACHMENTS_INV_PAGE_SIZE) \in Range(k[2])
                /\ (i \div ATTACHMENTS_INV_PAGE_SIZE)
                      \in DOMAIN context.inventories[k][u]
                /\ (i % ATTACHMENTS_INV_PAGE_SIZE)
                      \in context.inventories[k][u][i \div ATTACHMENTS_INV_PAGE_SIZE]

\* C34: in the queue built by get_prioritized_attachments_requests no two
\* requests have the same content hash, every request has a source, every
\* source is a peer of the context, with its report, that listed a missing
\* instance of that hash with bit 1, and every requested hash is missing in
\* the batch; so the most reliable source is one of the sources and has a
\* report among the context's peers.
C34_RequestsHaveListedSources ==
    QueueBuilt =>
        LET context == ongoing_batch.context
            queue == ongoing_batch.sub.queue
        IN \A r \in queue :
              /\ \A q \in queue : q.content_hash = r.content_hash => q = r
              /\ DOMAIN r.sources # {}
              /\ \A u \in DOMAIN r.sources :
                    /\ u \in DOMAIN context.peers
                    /\ r.sources[u] = context.peers[u]
                    /\ ListedBy(context, u, r.content_hash)
              /\ \E t \in Missing(context.attachments_batch) :
                    t[3] = r.content_hash
              /\ get_most_reliable_source(r) \in DOMAIN r.sources
              /\ get_most_reliable_source(r) \in DOMAIN context.peers

\* A queue was built with a request while a peer that answered the
\* inventory request did not list the attachment.
C34_Witness ==
    /\ QueueBuilt
    /\ \E r \in ongoing_batch.sub.queue :
          \E k \in DOMAIN ongoing_batch.context.inventories :
             \E u \in DOMAIN ongoing_batch.context.inventories[k] :
                 u \notin DOMAIN r.sources

\* C35: every pair a call of run() resolves while it admits its initial
\* batch is in the resolved list the call returns, also when no batch of
\* the queue is ready or no sync peer is there.
C35_InitialResolvedReturned ==
    (last_call.call = "run" /\ last_call.ret = "ok")
    => Range(last_call.admission.resolved) \subseteq Range(last_call.resolved)

\* The batch the last call of run() took out of the priority queue or out
\* of the ongoing slot is still held, or it has no missing instance, or its
\* retries are used up: one more makes its retry_count reach the maximum.
BatchKept ==
    /\ last_call.popped # None
       => /\ ongoing_batch # None
          /\ ongoing_batch.context.attachments_batch.bid = last_call.popped.bid
    /\ last_call.done # None
       => LET final == last_call.done.final
              retries == IF last_call.ret = "ok" THEN final.retry_count
                         ELSE U64Inc(final.retry_count)
          IN \/ has_fully_succeed(final)
             \/ InQueue(final.bid)
             \/ ~U64Lt(retries, config.max_attachment_retry_count)

\* C36: no batch with missing instances is lost: after every call of run(),
\* also one that returns a storage error while it handles Done, the batch it
\* popped or took, if not fully resolved, is the ongoing batch, or is back in
\* the priority queue, or was dropped with its retries used up.
C36_NoBatchLost == last_call.call = "run" => BatchKept

\* C36 on the calls that return Ok: there it holds.
C36_NoBatchLostWhenOk ==
    (last_call.call = "run" /\ last_call.ret = "ok") => BatchKept

\* C37: whenever has_ready_batches() answers true, pop_next_ready_batch()
\* called at the same or a later time on the same queue returns a batch: the
\* head of the queue is ready then, so no ready batch is hidden behind a head
\* that is not, and the branch of run() for a pop that returns None after
\* has_ready_batches() answered true is never taken.
C37_ReadyThenPopped ==
    (last_call.call = "pop" /\ last_call.asked)
    => /\ last_call.asked_at <= last_call.time
       /\ last_call.popped # None
       /\ last_call.popped \in last_call.before
       /\ last_call.popped.retry_deadline < last_call.asked_at

\* has_ready_batches() answered true, the pop came a second later, and the
\* queue held, besides the batch returned, one that was not ready, with more
\* missing instances and of a lower block.
C37_Witness ==
    /\ Popped
    /\ last_call.asked
    /\ last_call.asked_at < last_call.time
    /\ \E b \in priority_queue :
          /\ b.retry_deadline >= last_call.time
          /\ attachments_instances_count(b)
                > attachments_instances_count(last_call.popped)
          /\ b.block_height < last_call.popped.block_height

\* A call of run() after which the batch of the ongoing slot is in another
\* state, or its lookups or its batcher are, or it has left the slot.
RunProgress ==
    /\ ongoing_batch # None
    /\ Run
    /\ \/ ongoing_batch' = None
       \/ /\ ongoing_batch' # None
          /\ \/ ongoing_batch'.state # ongoing_batch.state
             \/ ongoing_batch'.sub.state # ongoing_batch.sub.state

\* The downloader of two instances with one sync peer, and run() alone.
FairInit ==
    /\ now = 0
    /\ config \in Configs({1}, 1 .. MaxInflightConfig)
    /\ initial_batch = {I1, I2}
    /\ atlasdb = EmptyStore({I1, I2})
    /\ sync_peers = {"u1"}
    /\ priority_queue = {}
    /\ ongoing_batch = None
    /\ reliability_reports = << >>
    /\ next_event_id = 0
    /\ next_bid = 1
    /\ enqueues = 0
    /\ faults = 0
    /\ evictions = 0
    /\ processed = << >>
    /\ last_call = NoCall
    /\ signer = None
    /\ receiver = None

\* run() is called again and again, by the p2p thread; a DNS lookup is
\* queued with a deadline, and ends; and a request begun stops being
\* pending: a call that finds the lookups, or the requests, of the ongoing
\* batch at their end is made at last.
SpecFair == FairInit /\ [][Run]_vars /\ WF_vars(RunProgress)

\* The batch of the ongoing slot is in the stage.
InStage(stage) == ongoing_batch # None /\ ongoing_batch.state = stage

\* C38: with max_inflight_attachments >= 1 and a finite queue of requests,
\* when every request begun stops being pending the calls of try_proceed
\* bring the batcher of requests to Done, so the batch leaves the stage of
\* the batcher; and every batch started reaches Done and leaves the ongoing
\* slot.
C38_BatcherEndsBatchLeaves ==
    /\ \A stage \in {"DownloadingAttachmentsInv", "DownloadingAttachment"} :
          InStage(stage) ~> ~InStage(stage)
    /\ (ongoing_batch # None) ~> (ongoing_batch = None)

\* With one request in flight at most, the batcher of attachment requests
\* began its two requests in two groups, and the batch has left the slot.
C38_Witness ==
    /\ DoneTick
    /\ ongoing_batch = None
    /\ config.max_inflight_attachments = 1
    /\ LET finished == last_call.done.history.finished
       IN Cardinality({e \in DOMAIN finished :
                         finished[e].stage = "DownloadingAttachment"}) = 2

C40_PassReturns ==
    Pass => /\ last_call.returned
            /\ signer.halted # "hung"

=========================================================================
